---- MODULE Spec2Model ----
(***************************************************************************)
(* The metered Klaviyo client of the dashboard backend (KlaviyoService):   *)
(* the per-instance rate limiter, the request executor with its 429 retry  *)
(* loop, and the cursor-following event fetch, together with the server    *)
(* route that constructs one service instance per dashboard request, and   *)
(* the two pieces of the frontend that call it: the Dashboard component    *)
(* and the AuthProvider.                                                   *)
(*                                                                         *)
(* Time is in milliseconds.  A task is one call of a service method made   *)
(* by some caller; a task runs atomically between two awaits, as node's    *)
(* event loop runs it.                                                     *)
(***************************************************************************)
EXTENDS Integers, Sequences, FiniteSets, TLC

\* ------------------------------------------------------------------------
\* Bounds of the model
\* ------------------------------------------------------------------------
MaxTasks == 3        \* concurrent callers of a run
MaxServices == 2     \* service instances (dashboard requests) of a run
MaxTime == 750       \* latency steps stop this long after the start (ms)
MaxPages == 3        \* pages the upstream holds for one paginated fetch
MaxFetchTime == 500  \* the same for a paginated fetch
MaxAdmissions == 5   \* admissions of one instance after which callers stop calling again
MaxCampaigns == 2    \* campaigns in the answer of one channel
MaxGroups == 2       \* result groups of one aggregate response
MaxDetailFailures == 1   \* detail requests of one build that the upstream fails
MaxFetches == 3      \* fetches one Dashboard component starts
MaxLogins == 3       \* login calls on one AuthProvider

\* ------------------------------------------------------------------------
\* Program constants
\* ------------------------------------------------------------------------
minRequestInterval == 250
maxRetries == 3
DefaultRetryMs == 1000
PageSize == 100

\* Date.now() when the process starts: epoch milliseconds, far above any interval.
StartTime == 4 * minRequestInterval
\* Latencies by which the clock may advance between two events.
Steps == {125, 250}

Tasks == 1..MaxTasks
Services == 1..MaxServices
Keys == {"pk_A", "pk_B"}

\* ------------------------------------------------------------------------
\* Optional values and text.  An optional value is <<>> (undefined) or <<v>>.
\* A text is a sequence of one-character strings, or of whole fixed phrases.
\* ------------------------------------------------------------------------
None == <<>>
Some(v) == <<v>>
IsSome(o) == Len(o) > 0
Get(o) == o[1]

\* JavaScript truthiness of an optional string: undefined and "" are falsy.
Truthy(o) == IsSome(o) /\ Len(Get(o)) > 0

Digits == {"0", "1", "2", "3", "4", "5", "6", "7", "8", "9"}
Whitespace == {" ", "\t"}

DigitVal(c) ==
  CASE c = "0" -> 0 [] c = "1" -> 1 [] c = "2" -> 2 [] c = "3" -> 3 [] c = "4" -> 4
    [] c = "5" -> 5 [] c = "6" -> 6 [] c = "7" -> 7 [] c = "8" -> 8 [] c = "9" -> 9

\* String.prototype.toLowerCase on one character.
ToLower(c) ==
  CASE c = "S" -> "s" [] c = "E" -> "e" [] c = "C" -> "c" [] c = "O" -> "o"
    [] c = "N" -> "n" [] c = "D" -> "d" [] c = "X" -> "x" [] c = "A" -> "a"
    [] c = "B" -> "b" [] c = "F" -> "f" [] c = "G" -> "g" [] c = "H" -> "h"
    [] c = "I" -> "i" [] c = "J" -> "j" [] c = "K" -> "k" [] c = "L" -> "l"
    [] c = "M" -> "m" [] c = "P" -> "p" [] c = "Q" -> "q" [] c = "R" -> "r"
    [] c = "T" -> "t" [] c = "U" -> "u" [] c = "V" -> "v" [] c = "W" -> "w"
    [] c = "Y" -> "y" [] c = "Z" -> "z" [] OTHER -> c

SecondWord == <<"s", "e", "c", "o", "n", "d">>

\* parseInt of a run of decimal digits.
RECURSIVE ParseInt(_)
ParseInt(ds) ==
  IF Len(ds) = 0 THEN 0
  ELSE 10 * ParseInt(SubSeq(ds, 1, Len(ds) - 1)) + DigitVal(ds[Len(ds)])

\* End of the longest run of characters of class cls that starts at position i
\* (i - 1 when the run is empty): the greedy \d+ and \s* of the regex.
RECURSIVE RunEnd(_, _, _)
RunEnd(s, i, cls) ==
  IF i <= Len(s) /\ s[i] \in cls THEN RunEnd(s, i + 1, cls) ELSE i - 1

\* The literal "second" of the regex at position k, under the /i flag.
WordAt(s, k) ==
  /\ k + Len(SecondWord) - 1 <= Len(s)
  /\ \A n \in 1..Len(SecondWord) : ToLower(s[k + n - 1]) = SecondWord[n]

\* One attempt of /(\d+)\s*second/i anchored at position i: the digits are
\* taken greedily, then the white space, then the word must follow.  Giving
\* back digits or spaces cannot help (the next pattern character would have
\* to match a digit or a space), so the greedy attempt decides the anchor.
MatchAt(s, i) ==
  LET j == RunEnd(s, i, Digits)
      k == RunEnd(s, j + 1, Whitespace)
  IN  IF j >= i /\ WordAt(s, k + 1) THEN Some(SubSeq(s, i, j)) ELSE None

\* String.prototype.match without the g flag: the leftmost anchor that
\* matches; the result is capture group 1, or None for null.
RECURSIVE MatchFrom(_, _)
MatchFrom(s, i) ==
  IF i > Len(s) THEN None
  ELSE IF IsSome(MatchAt(s, i)) THEN MatchAt(s, i)
  ELSE MatchFrom(s, i + 1)

MatchRetryAfter(detail) == MatchFrom(detail, 1)

\* ------------------------------------------------------------------------
\* Upstream responses.  A response is [status, body]; status 0 stands for
\* "no HTTP response" (error.response undefined).  A body is
\* [hasErrors, errors, message]: hasErrors says that body.errors is present
\* (an array), errors is that array of [detail, title] entries, message is
\* the optional body.message.
\* ------------------------------------------------------------------------
NoResponse == 0
Entry(d, t) == [detail |-> d, title |-> t]
Body(h, es, m) == [hasErrors |-> h, errors |-> es, message |-> m]
EmptyBody == Body(FALSE, <<>>, None)
Response(st, b) == [status |-> st, body |-> b]

\* error.response?.data?.errors?.[0]?.detail
FirstDetail(body) ==
  IF body.hasErrors /\ Len(body.errors) > 0 THEN body.errors[1].detail ELSE None

\* IgnoreHint: a retry delay that never reads the upstream hint.
IgnoreHint(body) == DefaultRetryMs

\* Lines 700-701: the delay slept before a retry.
RetryDelayMs(body) ==
  LET detail == FirstDetail(body)
      retryAfter == IF IsSome(detail) THEN MatchRetryAfter(Get(detail)) ELSE None
  IN  IF IsSome(retryAfter) THEN ParseInt(Get(retryAfter)) * 1000 ELSE DefaultRetryMs

\* RetryOnAnyFailure: a retry condition that also retries other failures.
RetryOnAnyFailure(status, rc) == rc < maxRetries

\* RetryOnceMore: a retry condition whose bound is off by one.
RetryOnceMore(status, rc) == status = 429 /\ rc <= maxRetries

\* Line 699: the condition under which a failed attempt is retried.
ShouldRetry(status, rc) == status = 429 /\ rc < maxRetries

\* axios' error.message.
AxiosMessage(status) ==
  IF status = NoResponse THEN <<"Network Error">>
  ELSE <<"Request failed with status code ", ToString(status)>>

\* Lines 715-722: the value makeRequest throws for a failure that is not
\* retried.  errors[0] of an empty errors array is undefined, and reading
\* .detail of it raises a TypeError inside the catch block; an entry with
\* neither detail nor title yields the string "undefined".
ThrownFor(resp) ==
  LET b == resp.body IN
  IF resp.status # NoResponse /\ b.hasErrors
  THEN IF Len(b.errors) = 0
       THEN [name |-> "TypeError",
             message |-> <<"Cannot read properties of undefined (reading 'detail')">>]
       ELSE LET e == b.errors[1]
                msg == IF Truthy(e.detail) THEN Get(e.detail)
                       ELSE IF IsSome(e.title) THEN Get(e.title)
                       ELSE <<"undefined">>
            IN  [name |-> "Error", message |-> <<"Klaviyo API Error: ">> \o msg]
  ELSE IF resp.status # NoResponse /\ Truthy(b.message)
  THEN [name |-> "Error", message |-> <<"Klaviyo API Error: ">> \o Get(b.message)]
  ELSE [name |-> "Error", message |-> <<"Klaviyo API Error: ">> \o AxiosMessage(resp.status)]

NoError == [name |-> "", message |-> <<>>]

\* ------------------------------------------------------------------------
\* URLs and requests.  An absolute URL is [origin, pathname, search]: the
\* pathname is its sequence of segments ("/api/events/" is <<"api","events">>)
\* and search is the page cursor of "?page[cursor]=<n>" (0: no query).
\* A request is the endpoint handed to makeRequest, [path, search, first]:
\* first says that the call carries the initial parameters
\* {filter, page[size]} of the first page.
\* ------------------------------------------------------------------------
Origin == "https://a.klaviyo.com"
BasePath == <<"api">>
Url(p, c) == [origin |-> Origin, pathname |-> p, search |-> c]
Req(p, c, f) == [path |-> p, search |-> c, first |-> f]
EventsEndpoint == <<"events">>
AccountsEndpoint == <<"accounts">>
NoReq == Req(<<>>, 0, FALSE)

\* KeepApiPrefix: the cursor's path handed on with its "/api" prefix.
KeepApiPrefix(u) == Req(u.pathname, u.search, FALSE)

\* ResendInitialParams: the cursor's request sent with the initial
\* parameters again.
ResendInitialParams(u) ==
  IF Len(u.pathname) >= 1 /\ u.pathname[1] = "api"
  THEN Req(Tail(u.pathname), u.search, TRUE)
  ELSE Req(u.pathname, u.search, TRUE)

\* Lines 1358-1364: pathname + search of links.next, with the "/api" prefix
\* removed when the path starts with "/api/".
CursorPath(u) ==
  IF Len(u.pathname) >= 1 /\ u.pathname[1] = "api"
  THEN Req(Tail(u.pathname), u.search, FALSE)
  ELSE Req(u.pathname, u.search, FALSE)

\* Line 679: the URL axios is given, baseURL followed by the endpoint.
RequestUrl(req) == Url(BasePath \o req.path, req.search)

\* ConcatDistinct: an accumulation that skips items it has already seen.
ConcatDistinct(all, data) ==
  all \o SelectSeq(data, LAMBDA x : \A i \in 1..Len(all) : all[i] # x)

\* Line 1370: allEvents.concat(response.data).
ConcatPage(all, data) == all \o data

\* AlwaysFollow: a cursor read that makes up the next cursor when the page
\* has none.
AlwaysFollow(page, cur) ==
  IF IsSome(page.next) THEN page.next ELSE Some(Url(BasePath \o EventsEndpoint, cur + 1))

\* Line 1376: response?.links?.next || null (cur is not read).
NextUrl(page, cur) == page.next

\* ------------------------------------------------------------------------
\* State
\* ------------------------------------------------------------------------
VARIABLES
  now,              \* Date.now()
  privateKey,       \* per service instance: <<key>> once constructed, <<>> before
  lastRequestTime,  \* per service instance: this.lastRequestTime
  pc,               \* per task: where the task is suspended
  op,               \* per task: the service method the caller invoked
  svcOf,            \* per task: the service instance it runs on
  request,          \* per task: endpoint of the current makeRequest call
  retryCount,       \* per task: retryCount of the current makeRequest frame
  timer,            \* per task: when the pending setTimeout is due
  lastResp,         \* per task: the failed response its catch block holds
  waitTime,         \* per task: the delay of the pending backoff
  returned,         \* per task: the value the method returned, <<>> before
  thrown,           \* per task: the error the method raised, NoError before
  caught,           \* per task: the error the method's own catch block swallowed
  allEvents,        \* per task: getAllEventsByMetricId's allEvents
  url,              \* per task: getAllEventsByMetricId's url
  firstRequest,     \* per task: getAllEventsByMetricId's firstRequest
  pageCount,        \* per task: getAllEventsByMetricId's pageCount
  pages,            \* the upstream's event pages, in cursor order
  net,              \* HTTP requests in flight
  attempts,         \* per task: HTTP attempts issued for the current makeRequest
  admitted,         \* per service instance: [count, first, prev] of its admissions
  served,           \* per task: cursors of the pages delivered to it, in order
  aggPc,            \* where the aggregate query (or revenue calculation) is suspended
  aggCall,          \* the method invoked and its arguments
  aggRequest,       \* the requests it handed to makeRequest, in order
  aggResponse,      \* what makeRequest answered to each of them, in order
  aggResult,        \* the value the method returned, <<>> before
  aggThrown,        \* the error the method raised to its caller, NoError before
  bPc,              \* where getDashboardMetrics is suspended
  catalog,          \* the upstream's metric catalog of the tenant
  pendingReq,       \* request slots of the build that have not settled
  issued,           \* request slots of the build, in the order they were started
  outcome,          \* per settled slot: "ok" or "fail"
  allMetrics,       \* getDashboardMetrics' allMetrics
  metricIds,        \* the ids resolved for the four event metrics
  eventMetrics,     \* getDashboardMetrics' eventMetrics
  detailIdx,        \* getAllMetricsWithDetails: index of the entry being fetched
  details,          \* getAllMetricsWithDetails' details
  metricsWithDetails, \* getDashboardMetrics' metricsWithDetails (<<>>: null)
  revenueMetrics,   \* getDashboardMetrics' revenueMetrics
  snapshot,         \* the value getDashboardMetrics returned, <<>> before
  firstSettled,     \* per concurrent phase: the request that settled first, "" before
  campPc,           \* where getCampaigns is suspended
  campIssued,       \* the requests getCampaigns handed to makeRequest, in order
  campAnswer,       \* per settled channel: what makeRequest answered
  campResult,       \* the value getCampaigns returned, <<>> before
  route,            \* GET /api/dashboard/metrics: [pc, header, clientId, res]
  view,             \* the Dashboard component: its state, timer and fetches
  auth              \* the AuthProvider: its state, localStorage and the axios default header

limVars == <<now, privateKey, lastRequestTime, admitted>>
reqVars == <<pc, op, svcOf, request, retryCount, timer, lastResp, waitTime,
             returned, thrown, caught, net, attempts>>
fetchVars == <<allEvents, url, firstRequest, pageCount, pages, served>>
aggVars == <<aggPc, aggCall, aggRequest, aggResponse, aggResult, aggThrown>>
buildVars == <<bPc, catalog, pendingReq, issued, outcome, allMetrics, metricIds, eventMetrics,
               detailIdx, details, metricsWithDetails, revenueMetrics, snapshot,
               firstSettled>>
campVars == <<campPc, campIssued, campAnswer, campResult>>
uiVars == <<view, auth>>
vars == <<limVars, reqVars, fetchVars, aggVars, buildVars, campVars, route, uiVars>>

NoResp == Response(NoResponse, EmptyBody)
\* lastResp of a task that is not inside the catch block.
NotYet == Response(-1, EmptyBody)

InitService ==
  /\ now = StartTime
  /\ privateKey = [s \in Services |-> None]
  /\ lastRequestTime = [s \in Services |-> 0]
  /\ admitted = [s \in Services |-> [count |-> 0, first |-> 0, prev |-> 0]]

InitTasks ==
  /\ pc = [t \in Tasks |-> "idle"]
  /\ op = [t \in Tasks |-> ""]
  /\ svcOf = [t \in Tasks |-> 1]
  /\ request = [t \in Tasks |-> NoReq]
  /\ retryCount = [t \in Tasks |-> 0]
  /\ timer = [t \in Tasks |-> 0]
  /\ lastResp = [t \in Tasks |-> NotYet]
  /\ waitTime = [t \in Tasks |-> 0]
  /\ returned = [t \in Tasks |-> None]
  /\ thrown = [t \in Tasks |-> NoError]
  /\ caught = [t \in Tasks |-> NoError]
  /\ net = {}
  /\ attempts = [t \in Tasks |-> 0]
  /\ allEvents = [t \in Tasks |-> <<>>]
  /\ url = [t \in Tasks |-> None]
  /\ firstRequest = [t \in Tasks |-> FALSE]
  /\ pageCount = [t \in Tasks |-> 0]
  /\ served = [t \in Tasks |-> <<>>]

\* ------------------------------------------------------------------------
\* rateLimit and makeRequest
\* ------------------------------------------------------------------------

\* Lines 665, 677-695: rateLimit records the admission and returns; the
\* caller builds the config and hands the request to axios.
Admit(t, s, req, rc, pending) ==
  /\ lastRequestTime' = [lastRequestTime EXCEPT ![s] = now]
  /\ admitted' = [admitted EXCEPT ![s] =
                    [count |-> @.count + 1,
                     first |-> IF @.count = 0 THEN now ELSE @.first,
                     prev |-> lastRequestTime[s]]]
  /\ net' = pending \cup {[task |-> t, req |-> req, key |-> Get(privateKey[s])]}
  /\ attempts' = [attempts EXCEPT ![t] = IF rc = 0 THEN 1 ELSE @ + 1]
  /\ pc' = [pc EXCEPT ![t] = "http"]
  /\ timer' = [timer EXCEPT ![t] = 0]

\* KeepCounter: a frame of a new call that goes on from the counter the
\* caller's previous call ended with.
KeepCounter(t, s, req, rc, pending) ==
  LET kept == IF rc = 0 THEN retryCount[t] ELSE rc IN
  /\ request' = [request EXCEPT ![t] = req]
  /\ retryCount' = [retryCount EXCEPT ![t] = kept]
  /\ LET timeSinceLastRequest == now - lastRequestTime[s] IN
     IF timeSinceLastRequest < minRequestInterval
     THEN /\ pc' = [pc EXCEPT ![t] = "rateLimit"]
          /\ timer' = [timer EXCEPT ![t] = now + (minRequestInterval - timeSinceLastRequest)]
          /\ attempts' = [attempts EXCEPT ![t] = IF rc = 0 THEN 0 ELSE @]
          /\ net' = pending
          /\ UNCHANGED <<lastRequestTime, admitted>>
     ELSE Admit(t, s, req, kept, pending)

\* Lines 670-675 and 656-663: a makeRequest frame starts and runs rateLimit
\* up to its first await.  The time since the last admission is read here;
\* when it is short the task sleeps for the rest of the interval and writes
\* lastRequestTime only when it wakes (RateLimitWake).  pending is the set
\* of requests still in flight when the frame starts.
MakeRequest(t, s, req, rc, pending) ==
  /\ request' = [request EXCEPT ![t] = req]
  /\ retryCount' = [retryCount EXCEPT ![t] = rc]
  /\ LET timeSinceLastRequest == now - lastRequestTime[s] IN
     IF timeSinceLastRequest < minRequestInterval
     THEN /\ pc' = [pc EXCEPT ![t] = "rateLimit"]
          /\ timer' = [timer EXCEPT ![t] = now + (minRequestInterval - timeSinceLastRequest)]
          /\ attempts' = [attempts EXCEPT ![t] = IF rc = 0 THEN 0 ELSE @]
          /\ net' = pending
          /\ UNCHANGED <<lastRequestTime, admitted>>
     ELSE Admit(t, s, req, rc, pending)

\* server.js lines 152-153: the dashboard route constructs a service
\* instance for the client's key (constructor, lines 643-648).
DashboardRoute(s, k) ==
  /\ UNCHANGED <<aggVars, buildVars, campVars, route, uiVars>>
  /\ privateKey[s] = None
  /\ \A r \in Services : r < s => privateKey[r] # None
  /\ privateKey' = [privateKey EXCEPT ![s] = Some(k)]
  /\ lastRequestTime' = [lastRequestTime EXCEPT ![s] = 0]
  /\ UNCHANGED <<now, admitted, reqVars, fetchVars>>

\* A caller invokes makeRequest(endpoint) on a constructed instance.
CallMakeRequest(t, s) ==
  /\ UNCHANGED <<aggVars, buildVars, campVars, route, uiVars>>
  /\ pc[t] = "idle"
  /\ \A u \in Tasks : u < t => pc[u] # "idle"
  /\ privateKey[s] # None
  /\ op' = [op EXCEPT ![t] = "makeRequest"]
  /\ svcOf' = [svcOf EXCEPT ![t] = s]
  /\ MakeRequest(t, s, Req(AccountsEndpoint, 0, FALSE), 0, net)
  /\ UNCHANGED <<now, privateKey, lastResp, waitTime, returned, thrown, caught, fetchVars>>

\* A caller whose makeRequest call has ended invokes makeRequest again:
\* line 670, retryCount takes its default 0.
CallAgain(t) ==
  /\ UNCHANGED <<aggVars, buildVars, campVars, route, uiVars>>
  /\ pc[t] \in {"returned", "thrown"}
  /\ op[t] = "makeRequest"
  /\ admitted[svcOf[t]].count < MaxAdmissions
  /\ returned' = [returned EXCEPT ![t] = None]
  /\ thrown' = [thrown EXCEPT ![t] = NoError]
  /\ lastResp' = [lastResp EXCEPT ![t] = NotYet]
  /\ MakeRequest(t, svcOf[t], Req(AccountsEndpoint, 0, FALSE), 0, net)
  /\ UNCHANGED <<now, privateKey, op, svcOf, waitTime, caught, fetchVars>>

\* WakeEarly: the sleep inside rateLimit ends before its delay has passed.
WakeEarly(t) ==
  /\ UNCHANGED <<aggVars, buildVars, campVars, route, uiVars>>
  /\ pc[t] = "rateLimit"
  /\ Admit(t, svcOf[t], request[t], retryCount[t], net)
  /\ UNCHANGED <<now, privateKey, op, svcOf, request, retryCount, lastResp, waitTime,
                 returned, thrown, caught, fetchVars>>

\* Lines 662-665: the sleep inside rateLimit is over.
RateLimitWake(t) ==
  /\ UNCHANGED <<aggVars, buildVars, campVars, route, uiVars>>
  /\ pc[t] = "rateLimit"
  /\ now >= timer[t]
  /\ Admit(t, svcOf[t], request[t], retryCount[t], net)
  /\ UNCHANGED <<now, privateKey, op, svcOf, request, retryCount, lastResp, waitTime,
                 returned, thrown, caught, fetchVars>>

\* The request of task t that is in flight.
InFlight(t) == {m \in net : m.task = t}

\* Lines 695-696 for a direct caller: axios resolves, makeRequest returns
\* response.data.
RespondOk(t, data) ==
  /\ UNCHANGED <<aggVars, buildVars, campVars, route, uiVars>>
  /\ pc[t] = "http"
  /\ op[t] = "makeRequest"
  /\ InFlight(t) # {}
  /\ net' = net \ InFlight(t)
  /\ pc' = [pc EXCEPT ![t] = "returned"]
  /\ returned' = [returned EXCEPT ![t] = Some(data)]
  /\ UNCHANGED <<limVars, op, svcOf, request, retryCount, timer, lastResp, waitTime,
                 thrown, caught, attempts, fetchVars>>

\* Lines 699-704: a 429 that is retried; the task sleeps for the delay.
Throttled(t, resp) ==
  /\ UNCHANGED <<aggVars, buildVars, campVars, route, uiVars>>
  /\ pc[t] = "http"
  /\ InFlight(t) # {}
  /\ ShouldRetry(resp.status, retryCount[t])
  /\ net' = net \ InFlight(t)
  /\ lastResp' = [lastResp EXCEPT ![t] = resp]
  /\ waitTime' = [waitTime EXCEPT ![t] = RetryDelayMs(resp.body)]
  /\ timer' = [timer EXCEPT ![t] = now + waitTime'[t]]
  /\ pc' = [pc EXCEPT ![t] = "backoff"]
  /\ UNCHANGED <<limVars, op, svcOf, request, retryCount, returned, thrown, caught,
                 attempts, fetchVars>>

\* ResendUnadmitted: after the backoff the request is handed to axios again
\* without passing rateLimit.
ResendUnadmitted(t) ==
  /\ UNCHANGED <<aggVars, buildVars, campVars, route, uiVars>>
  /\ pc[t] = "backoff"
  /\ now >= timer[t]
  /\ retryCount' = [retryCount EXCEPT ![t] = @ + 1]
  /\ net' = net \cup {[task |-> t, req |-> request[t], key |-> Get(privateKey[svcOf[t]])]}
  /\ attempts' = [attempts EXCEPT ![t] = @ + 1]
  /\ pc' = [pc EXCEPT ![t] = "http"]
  /\ timer' = [timer EXCEPT ![t] = 0]
  /\ lastResp' = [lastResp EXCEPT ![t] = NotYet]
  /\ waitTime' = [waitTime EXCEPT ![t] = 0]
  /\ UNCHANGED <<limVars, op, svcOf, request, returned, thrown, caught, fetchVars>>

\* RetryAtOnce: the retry started without waiting for the backoff to end.
RetryAtOnce(t) ==
  /\ UNCHANGED <<aggVars, buildVars, campVars, route, uiVars>>
  /\ pc[t] = "backoff"
  /\ MakeRequest(t, svcOf[t], request[t], retryCount[t] + 1, net)
  /\ lastResp' = [lastResp EXCEPT ![t] = NotYet]
  /\ waitTime' = [waitTime EXCEPT ![t] = 0]
  /\ UNCHANGED <<now, privateKey, op, svcOf, returned, thrown, caught, fetchVars>>

\* Lines 704-707: the backoff is over; makeRequest calls itself with
\* retryCount + 1.  The error and the delay of the catch block are not read
\* again.
BackoffWake(t) ==
  /\ UNCHANGED <<aggVars, buildVars, campVars, route, uiVars>>
  /\ pc[t] = "backoff"
  /\ now >= timer[t]
  /\ MakeRequest(t, svcOf[t], request[t], retryCount[t] + 1, net)
  /\ lastResp' = [lastResp EXCEPT ![t] = NotYet]
  /\ waitTime' = [waitTime EXCEPT ![t] = 0]
  /\ UNCHANGED <<now, privateKey, op, svcOf, returned, thrown, caught, fetchVars>>

\* ReturnPartial: the catch block of the fetch returns the events of the
\* pages fetched before the failure.
ReturnPartial(t, resp) ==
  /\ UNCHANGED <<aggVars, buildVars, campVars, route, uiVars>>
  /\ pc[t] = "http"
  /\ InFlight(t) # {}
  /\ ~ShouldRetry(resp.status, retryCount[t])
  /\ net' = net \ InFlight(t)
  /\ lastResp' = [lastResp EXCEPT ![t] = resp]
  /\ IF op[t] = "getAllEventsByMetricId"
     THEN /\ pc' = [pc EXCEPT ![t] = "returned"]
          /\ returned' = [returned EXCEPT ![t] = Some([data |-> allEvents[t]])]
          /\ caught' = [caught EXCEPT ![t] = ThrownFor(resp)]
          /\ UNCHANGED thrown
     ELSE /\ pc' = [pc EXCEPT ![t] = "thrown"]
          /\ thrown' = [thrown EXCEPT ![t] = ThrownFor(resp)]
          /\ UNCHANGED <<returned, caught>>
  /\ UNCHANGED <<limVars, op, svcOf, request, retryCount, timer, waitTime,
                 attempts, fetchVars>>

\* Lines 710-722 (and 1328-1331, 1382-1385 for the fetch): a failure that is
\* not retried.  makeRequest throws; getAllEventsByMetricId catches the
\* error and returns { data: [] }.
Fail(t, resp) ==
  /\ UNCHANGED <<aggVars, buildVars, campVars, route, uiVars>>
  /\ pc[t] = "http"
  /\ InFlight(t) # {}
  /\ ~ShouldRetry(resp.status, retryCount[t])
  /\ net' = net \ InFlight(t)
  /\ lastResp' = [lastResp EXCEPT ![t] = resp]
  /\ IF op[t] = "getAllEventsByMetricId"
     THEN /\ pc' = [pc EXCEPT ![t] = "returned"]
          /\ returned' = [returned EXCEPT ![t] = Some([data |-> <<>>])]
          /\ caught' = [caught EXCEPT ![t] = ThrownFor(resp)]
          /\ UNCHANGED thrown
     ELSE /\ pc' = [pc EXCEPT ![t] = "thrown"]
          /\ thrown' = [thrown EXCEPT ![t] = ThrownFor(resp)]
          /\ UNCHANGED <<returned, caught>>
  /\ UNCHANGED <<limVars, op, svcOf, request, retryCount, timer, waitTime,
                 attempts, fetchVars>>

\* The clock advances by a latency d while some caller has not finished.
Tick(d, horizon, tasks) ==
  /\ UNCHANGED <<aggVars, buildVars, campVars, route, uiVars>>
  /\ now + d <= StartTime + horizon
  /\ \E t \in tasks : pc[t] \notin {"returned", "thrown"}
  /\ now' = now + d
  /\ UNCHANGED <<privateKey, lastRequestTime, admitted, reqVars, fetchVars>>

\* The clock reaches the due time of a pending setTimeout.
AdvanceToTimer(t) ==
  /\ UNCHANGED <<aggVars, buildVars, campVars, route, uiVars>>
  /\ pc[t] \in {"rateLimit", "backoff"}
  /\ now < timer[t]
  /\ now' = timer[t]
  /\ UNCHANGED <<privateKey, lastRequestTime, admitted, reqVars, fetchVars>>

\* ------------------------------------------------------------------------
\* getAllEventsByMetricId
\* ------------------------------------------------------------------------

\* The page the upstream serves for a request: page 1 for the request that
\* carries the initial parameters, page c for the cursor URL of page c, and 0
\* (no such resource) otherwise.
PageOf(req) ==
  IF RequestUrl(req).pathname # BasePath \o EventsEndpoint THEN 0
  ELSE IF req.first /\ req.search = 0 THEN 1
  ELSE IF ~req.first /\ req.search \in 2..Len(pages) THEN req.search
  ELSE 0

\* Lines 1336-1353: the fetch starts; the loop is entered with firstRequest
\* set and the first page is requested with the filter and the page size.
CallGetAllEvents(t, s) ==
  /\ UNCHANGED <<aggVars, buildVars, campVars, route, uiVars>>
  /\ pc[t] = "idle"
  /\ privateKey[s] # None
  /\ op' = [op EXCEPT ![t] = "getAllEventsByMetricId"]
  /\ svcOf' = [svcOf EXCEPT ![t] = s]
  /\ allEvents' = [allEvents EXCEPT ![t] = <<>>]
  /\ url' = [url EXCEPT ![t] = None]
  /\ firstRequest' = [firstRequest EXCEPT ![t] = TRUE]
  /\ pageCount' = [pageCount EXCEPT ![t] = 0]
  /\ MakeRequest(t, s, Req(EventsEndpoint, 0, TRUE), 0, net)
  /\ UNCHANGED <<now, privateKey, lastResp, waitTime, returned, thrown, caught,
                 pages, served>>

\* The model follows a fetch for MaxServed delivered pages; the loop of
\* lines 1347-1378 itself has no bound.
MaxServed == MaxPages + 3

\* Lines 1353/1366-1381: the awaited page arrives.  Its items are appended,
\* the cursor is read, and the loop either requests the page the cursor
\* names (lines 1358-1366) or ends and the fetch returns all items.
PageResponse(t) ==
  /\ UNCHANGED <<aggVars, buildVars, campVars, route, uiVars>>
  /\ pc[t] = "http"
  /\ op[t] = "getAllEventsByMetricId"
  /\ Len(served[t]) < MaxServed
  /\ \E m \in InFlight(t) :
       /\ PageOf(m.req) # 0
       /\ LET k == PageOf(m.req)
              page == pages[k]
              all == IF IsSome(page.data)
                     THEN ConcatPage(allEvents[t], Get(page.data))
                     ELSE allEvents[t]
              next == NextUrl(page, k)
          IN  /\ allEvents' = [allEvents EXCEPT ![t] = all]
              /\ pageCount' = [pageCount EXCEPT ![t] = IF IsSome(page.data) THEN @ + 1 ELSE @]
              /\ url' = [url EXCEPT ![t] = next]
              /\ firstRequest' = [firstRequest EXCEPT ![t] = FALSE]
              /\ served' = [served EXCEPT ![t] = Append(@, k)]
              /\ IF IsSome(next)
                 THEN /\ MakeRequest(t, svcOf[t], CursorPath(Get(next)), 0, net \ {m})
                      /\ UNCHANGED returned
                 ELSE /\ pc' = [pc EXCEPT ![t] = "returned"]
                      /\ returned' = [returned EXCEPT ![t] = Some([data |-> all])]
                      /\ net' = net \ {m}
                      /\ UNCHANGED <<lastRequestTime, admitted, request, retryCount,
                                     timer, attempts>>
  /\ UNCHANGED <<now, privateKey, op, svcOf, lastResp, waitTime, thrown, caught, pages>>

\* ------------------------------------------------------------------------
\* queryMetricAggregates and calculateRevenueByMetricId
\*
\* A measurement value of the upstream is a number or an array whose
\* entries are numbers or null: [isArray, items], items holding optional
\* numbers (<<>> is null).  A result group is [measurements, dimensions]:
\* measurements is the optional object {unique, count, sum_value} of optional
\* values, dimensions the optional array of dimension objects
\* {$attributed_message, $message, $flow, $campaign} of optional strings.
\* ------------------------------------------------------------------------
Num(n) == [isArray |-> FALSE, items |-> <<Some(n)>>]
Arr(xs) == [isArray |-> TRUE, items |-> xs]
Measurements(u, c, sv) == [unique |-> u, count |-> c, sum_value |-> sv]
Dimension(am, m, f, c) == [attributed_message |-> am, message |-> m, flow |-> f, campaign |-> c]
Group(ms, ds) == [measurements |-> ms, dimensions |-> ds]

\* JavaScript truthiness of an optional measurement value: undefined and
\* the number 0 are falsy, every array is truthy.
TruthyValue(v) == IsSome(v) /\ (Get(v).isArray \/ Get(v).items[1] # Some(0))

\* const num = parseFloat(val); isNaN(num) ? 0 : num  (null parses to NaN).
NumOrZero(val) == IF IsSome(val) THEN Get(val) ELSE 0

\* FirstEntryOnly: a reduction that reads the first entry of the array only.
FirstEntryOnly(items) == IF Len(items) = 0 THEN 0 ELSE NumOrZero(items[1])

\* Lines 1203-1206, 1229-1232, 1461-1464: items.reduce((acc, val) => acc + num, 0).
RECURSIVE SumValues(_)
SumValues(items) ==
  IF Len(items) = 0 THEN 0
  ELSE SumValues(SubSeq(items, 1, Len(items) - 1)) + NumOrZero(items[Len(items)])

\* Lines 1196-1198: the measurement a group is read by.
MeasurementKey(measurements) ==
  IF ~IsSome(measurements) THEN None
  ELSE IF TruthyValue(Get(measurements).unique) THEN Some("unique")
  ELSE IF TruthyValue(Get(measurements).count) THEN Some("count")
  ELSE IF TruthyValue(Get(measurements).sum_value) THEN Some("sum_value")
  ELSE None

\* measurements[measurementKey] for a key MeasurementKey chose.
MeasurementAt(measurements, key) ==
  CASE key = "unique" -> Get(Get(measurements).unique)
    [] key = "count" -> Get(Get(measurements).count)
    [] key = "sum_value" -> Get(Get(measurements).sum_value)

\* Lines 1200-1211: the scalar a group adds to total.
GroupValue(measurements, measurementKey) ==
  IF ~IsSome(measurementKey) THEN 0
  ELSE LET v == MeasurementAt(measurements, Get(measurementKey)) IN
       IF v.isArray THEN SumValues(v.items) ELSE NumOrZero(v.items[1])

\* Lines 1220-1224: the key of a group in the grouped mapping.
DimensionValue(dimension) ==
  IF IsSome(dimension.attributed_message) THEN Get(dimension.attributed_message)
  ELSE IF IsSome(dimension.message) THEN Get(dimension.message)
  ELSE IF IsSome(dimension.flow) THEN Get(dimension.flow)
  ELSE IF IsSome(dimension.campaign) THEN Get(dimension.campaign)
  ELSE "unknown"

EmptyGrouped == [k \in {} |-> 0]

\* Lines 1233, 1235: groupedData[k] = (groupedData[k] || 0) + x.
AddGrouped(groupedData, k, x) ==
  [d \in (DOMAIN groupedData) \cup {k} |->
     (IF d \in DOMAIN groupedData THEN groupedData[d] ELSE 0) + (IF d = k THEN x ELSE 0)]

\* Lines 1194-1238: the forEach over the result groups, from group i on.
\* acc is [total, grouped, raised]; raised says that the callback raised a
\* TypeError: line 1228 reads measurements[measurementKey] of a group that
\* has dimensions but no measurements object.
RECURSIVE ForEachGroup(_, _, _, _)
ForEachGroup(groups, i, by, acc) ==
  IF i > Len(groups) \/ acc.raised THEN acc
  ELSE LET group == groups[i]
           measurements == group.measurements
           measurementKey == MeasurementKey(measurements)
           value == GroupValue(measurements, measurementKey)
           total == acc.total + value
       IN  IF IsSome(by) /\ IsSome(group.dimensions) /\ Len(Get(group.dimensions)) > 0
           THEN IF ~IsSome(measurements)
                THEN [acc EXCEPT !.raised = TRUE]
                ELSE LET dimensionValue == DimensionValue(Get(group.dimensions)[1])
                         groupTotal ==
                           IF IsSome(measurementKey)
                                /\ MeasurementAt(measurements, Get(measurementKey)).isArray
                           THEN SumValues(MeasurementAt(measurements, Get(measurementKey)).items)
                           ELSE value
                     IN  ForEachGroup(groups, i + 1, by,
                           [total |-> total,
                            grouped |-> AddGrouped(acc.grouped, dimensionValue, groupTotal),
                            raised |-> FALSE])
           ELSE ForEachGroup(groups, i + 1, by, [acc EXCEPT !.total = total])

\* Filter expressions of the aggregate endpoint.
GreaterOrEqual(v) == [op |-> "greater-or-equal", field |-> "datetime", value |-> v]
LessThan(v) == [op |-> "less-than", field |-> "datetime", value |-> v]
EqualsMessage(v) == [op |-> "equals", field |-> "$attributed_message", value |-> v]
\* new Date().toISOString() and the same one month earlier (setMonth(getMonth() - 1)).
NowIso == <<"now">>
OneMonthAgoIso == <<"now", "-1 month">>
AggregatesEndpoint == <<"metric-aggregates">>

\* Lines 1153-1185: the body queryMetricAggregates posts.
QueryRequestBody(metricId, options) ==
  [type |-> "metric-aggregate",
   measurements |-> options.measurements,
   metric_id |-> metricId,
   timezone |-> options.timezone,
   filter |-> IF Len(options.filters) > 0 THEN Some(options.filters) ELSE None,
   interval |-> options.interval,
   by |-> IF IsSome(options.by) /\ Len(Get(options.by)) > 0 THEN options.by ELSE None]

\* Lines 1404-1440: the body calculateRevenueByMetricId posts.
RevenueRequestBody(metricId, options) ==
  LET defaultStartDate == IF Truthy(options.startDate) THEN Get(options.startDate) ELSE OneMonthAgoIso
      defaultEndDate == IF Truthy(options.endDate) THEN Get(options.endDate) ELSE NowIso
      filters == <<GreaterOrEqual(defaultStartDate), LessThan(defaultEndDate)>>
                   \o (IF Truthy(options.attributedMessage)
                       THEN <<EqualsMessage(Get(options.attributedMessage))>> ELSE <<>>)
  IN  [type |-> "metric-aggregate",
       measurements |-> <<"sum_value">>,
       metric_id |-> metricId,
       timezone |-> options.timezone,
       filter |-> Some(filters),
       interval |-> options.interval,
       by |-> None]

Post(endpoint, body) == [endpoint |-> endpoint, method |-> "POST", body |-> body]
Answer(ok, data, error) == [ok |-> ok, data |-> data, error |-> error]

InitAggregate ==
  /\ aggPc = "idle"
  /\ aggCall = [method |-> "", metricId |-> "", options |-> <<>>]
  /\ aggRequest = <<>>
  /\ aggResponse = <<>>
  /\ aggResult = None
  /\ aggThrown = NoError

\* Lines 1151-1187: queryMetricAggregates builds its body and awaits makeRequest.
CallQueryMetricAggregates(metricId, options) ==
  /\ aggPc = "idle"
  /\ aggCall' = [method |-> "queryMetricAggregates", metricId |-> metricId, options |-> options]
  /\ aggRequest' = <<Post(AggregatesEndpoint, QueryRequestBody(metricId, options))>>
  /\ aggPc' = "awaiting"
  /\ UNCHANGED <<aggResponse, aggResult, aggThrown, limVars, reqVars, fetchVars, buildVars, campVars, route, uiVars>>

\* Lines 1189-1244 (and 1245-1248 when the parsing raises): makeRequest
\* returned the response body; the groups are folded into total and grouped.
QueryReturns(response) ==
  /\ aggPc = "awaiting"
  /\ aggCall.method = "queryMetricAggregates"
  /\ aggResponse' = Append(aggResponse, Answer(TRUE, response, NoError))
  /\ LET acc == IF IsSome(response.data)
                THEN ForEachGroup(Get(response.data), 1, aggCall.options.by,
                                  [total |-> 0, grouped |-> EmptyGrouped, raised |-> FALSE])
                ELSE [total |-> 0, grouped |-> EmptyGrouped, raised |-> FALSE]
     IN  aggResult' = IF acc.raised
                      THEN Some([total |-> 0, grouped |-> EmptyGrouped])
                      ELSE Some([total |-> acc.total, grouped |-> acc.grouped])
  /\ aggPc' = "returned"
  /\ UNCHANGED <<aggCall, aggRequest, aggThrown, limVars, reqVars, fetchVars, buildVars, campVars, route, uiVars>>

\* Lines 1245-1248: makeRequest threw; the catch block returns zeros.
QueryFails(resp) ==
  /\ aggPc = "awaiting"
  /\ aggCall.method = "queryMetricAggregates"
  /\ aggResponse' = Append(aggResponse, Answer(FALSE, [data |-> None], ThrownFor(resp)))
  /\ aggResult' = Some([total |-> 0, grouped |-> EmptyGrouped])
  /\ aggPc' = "returned"
  /\ UNCHANGED <<aggCall, aggRequest, aggThrown, limVars, reqVars, fetchVars, buildVars, campVars, route, uiVars>>

\* Lines 1391-1443: calculateRevenueByMetricId builds its body and awaits makeRequest.
CallCalculateRevenue(metricId, options) ==
  /\ aggPc = "idle"
  /\ aggCall' = [method |-> "calculateRevenueByMetricId", metricId |-> metricId, options |-> options]
  /\ aggRequest' = <<Post(AggregatesEndpoint, RevenueRequestBody(metricId, options))>>
  /\ aggPc' = "awaiting"
  /\ UNCHANGED <<aggResponse, aggResult, aggThrown, limVars, reqVars, fetchVars, buildVars, campVars, route, uiVars>>

\* Lines 1458-1471 and 1474-1484 for one group.
RevenueOf(group) ==
  IF IsSome(group.measurements) /\ TruthyValue(Get(group.measurements).sum_value)
  THEN LET v == Get(Get(group.measurements).sum_value) IN
       IF v.isArray THEN SumValues(v.items) ELSE NumOrZero(v.items[1])
  ELSE 0
CountOf(group) ==
  IF IsSome(group.measurements) /\ TruthyValue(Get(group.measurements).count)
  THEN LET v == Get(Get(group.measurements).count) IN
       IF v.isArray THEN SumValues(v.items) ELSE NumOrZero(v.items[1])
  ELSE 0

\* Lines 1454-1485: the forEach of calculateRevenueByMetricId.
RECURSIVE SumInts(_)
SumInts(ns) == IF Len(ns) = 0 THEN 0 ELSE ns[1] + SumInts(Tail(ns))
SumOver(groups, Of(_)) == SumInts([i \in 1..Len(groups) |-> Of(groups[i])])

\* Lines 1448-1495: the aggregate answer is summed and returned.
RevenueReturns(response) ==
  /\ aggPc = "awaiting"
  /\ aggCall.method = "calculateRevenueByMetricId"
  /\ aggResponse' = Append(aggResponse, Answer(TRUE, response, NoError))
  /\ LET groups == IF IsSome(response.data) THEN Get(response.data) ELSE <<>> IN
     aggResult' = Some([totalRevenue |-> SumOver(groups, RevenueOf),
                        eventCount |-> SumOver(groups, CountOf),
                        eventsWithRevenue |-> None,
                        method |-> "metric-aggregates"])
  /\ aggPc' = "returned"
  /\ UNCHANGED <<aggCall, aggRequest, aggThrown, limVars, reqVars, fetchVars, buildVars, campVars, route, uiVars>>

\* ZeroOnFailure: a failed aggregate request answered with zeros, without
\* the event-based calculation.
ZeroOnFailure(resp) ==
  /\ aggPc = "awaiting"
  /\ aggCall.method = "calculateRevenueByMetricId"
  /\ aggResponse' = Append(aggResponse, Answer(FALSE, [data |-> None], ThrownFor(resp)))
  /\ aggResult' = Some([totalRevenue |-> 0, eventCount |-> 0,
                        eventsWithRevenue |-> Some(0), method |-> "events"])
  /\ aggPc' = "returned"
  /\ UNCHANGED <<aggCall, aggRequest, aggThrown, limVars, reqVars, fetchVars, buildVars, campVars, route, uiVars>>

\* Lines 1496-1516: the aggregate request failed; calculateRevenueFromEvents
\* requests the first page of events of the metric.
RevenueFails(resp) ==
  /\ aggPc = "awaiting"
  /\ aggCall.method = "calculateRevenueByMetricId"
  /\ aggResponse' = Append(aggResponse, Answer(FALSE, [data |-> None], ThrownFor(resp)))
  /\ aggRequest' = Append(aggRequest,
                     [endpoint |-> EventsEndpoint, method |-> "GET",
                      body |-> [filterMetric |-> aggCall.metricId, pageSize |-> PageSize]])
  /\ aggPc' = "fallback"
  /\ UNCHANGED <<aggCall, aggResult, aggThrown, limVars, reqVars, fetchVars, buildVars, campVars, route, uiVars>>

\* Lines 1522-1529 for one event: its $value when that is truthy.
EventRevenue(event) == IF IsSome(event) /\ Get(event) # 0 THEN Get(event) ELSE 0
EventHasRevenue(event) == IF IsSome(event) /\ Get(event) # 0 THEN 1 ELSE 0

\* Lines 1516-1537: the events arrive and their values are summed.
EventsReturn(eventsResponse) ==
  /\ aggPc = "fallback"
  /\ aggResponse' = Append(aggResponse, Answer(TRUE, eventsResponse, NoError))
  /\ LET events == IF IsSome(eventsResponse.data) THEN Get(eventsResponse.data) ELSE <<>> IN
     aggResult' = Some([totalRevenue |-> SumOver(events, EventRevenue),
                        eventCount |-> Len(events),
                        eventsWithRevenue |-> Some(SumOver(events, EventHasRevenue)),
                        method |-> "events"])
  /\ aggPc' = "returned"
  /\ UNCHANGED <<aggCall, aggRequest, aggThrown, limVars, reqVars, fetchVars, buildVars, campVars, route, uiVars>>

\* Lines 1538-1546: the events request failed too; zeros are returned.
EventsFail(resp) ==
  /\ aggPc = "fallback"
  /\ aggResponse' = Append(aggResponse, Answer(FALSE, [data |-> None], ThrownFor(resp)))
  /\ aggResult' = Some([totalRevenue |-> 0, eventCount |-> 0,
                        eventsWithRevenue |-> Some(0), method |-> "events"])
  /\ aggPc' = "returned"
  /\ UNCHANGED <<aggCall, aggRequest, aggThrown, limVars, reqVars, fetchVars, buildVars, campVars, route, uiVars>>

\* ------------------------------------------------------------------------
\* getDashboardMetrics
\*
\* A catalog entry is [id, attributes_name, name]: the optional id and the
\* optional texts m.attributes.name and m.name.  Every call the build hands
\* to a service method is a request slot; outcome says how the makeRequest
\* call of a slot ended ("ok": the upstream's answer was returned, "fail":
\* makeRequest threw).
\* ------------------------------------------------------------------------
Metric(id, an, n) == [id |-> id, attributes_name |-> an, name |-> n]

\* Lines 1630, 1638: m?.attributes?.name || m?.name || ''.
MetricName(m) ==
  IF Truthy(m.attributes_name) THEN Get(m.attributes_name)
  ELSE IF Truthy(m.name) THEN Get(m.name)
  ELSE <<>>

\* String.prototype.toLowerCase and String.prototype.includes.
LowerCase(t) == [i \in 1..Len(t) |-> ToLower(t[i])]
Includes(t, sub) ==
  \E i \in 1..(Len(t) - Len(sub) + 1) : SubSeq(t, i, i + Len(sub) - 1) = sub

\* Array.prototype.find: the first element that matches, or undefined.
Find(metrics, Matches(_)) ==
  LET hits == {i \in 1..Len(metrics) : Matches(metrics[i])} IN
  IF hits = {} THEN None
  ELSE Some(metrics[CHOOSE i \in hits : \A j \in hits : i <= j])

\* Lines 1633, 1641: metric?.id || null.
IdOrNull(metric) ==
  IF IsSome(metric) /\ IsSome(Get(metric).id) /\ Get(Get(metric).id) # ""
  THEN Get(metric).id ELSE None

\* Lines 1628-1634.
findMetricId(allMetricsData, searchName) ==
  IdOrNull(Find(allMetricsData,
                LAMBDA m : Includes(LowerCase(MetricName(m)), LowerCase(searchName))))

\* Lines 1636-1642.
findExactMetricId(allMetricsData, exactName) ==
  IdOrNull(Find(allMetricsData,
                LAMBDA m : LowerCase(MetricName(m)) = LowerCase(exactName)))

PlacedOrderName == <<"P", "l", "a", "c", "e", "d", " ", "O", "r", "d", "e", "r">>
PlacedOrderSearch == <<"p", "l", "a", "c", "e", "d", " ", "o", "r", "d", "e", "r">>
ViewedProductSearch == <<"v", "i", "e", "w", "e", "d", " ", "p", "r", "o", "d", "u", "c", "t">>
AddedToCartSearch == <<"a", "d", "d", "e", "d", " ", "t", "o", " ", "c", "a", "r", "t">>
ActiveOnSiteSearch == <<"a", "c", "t", "i", "v", "e", " ", "o", "n", " ", "s", "i", "t", "e">>

\* The event metrics of the snapshot, in the order the build resolves and
\* queries them.
EventNames == <<"placedOrder", "viewedProduct", "addedToCart", "activeOnSite">>

\* Lines 1645-1648: the ids of the four event metrics.
ResolveMetricIds(allMetricsData) ==
  [placedOrder |->
     IF IsSome(findExactMetricId(allMetricsData, PlacedOrderName))
     THEN findExactMetricId(allMetricsData, PlacedOrderName)
     ELSE findMetricId(allMetricsData, PlacedOrderSearch),
   viewedProduct |-> findMetricId(allMetricsData, ViewedProductSearch),
   addedToCart |-> findMetricId(allMetricsData, AddedToCartSearch),
   activeOnSite |-> findMetricId(allMetricsData, ActiveOnSiteSearch)]

\* QueryAlways: an event count that is queried whether or not its metric was found.
QueryAlways(metricId) == TRUE

\* Lines 1694, 1700, 1706, 1712: an event count is queried only when its
\* metric id was found.
CountQueried(metricId) == IsSome(metricId)

\* What the upstream holds for the tenant, besides the catalog.
AccountData == [data |-> <<"account">>]
ListsData == [data |-> <<"list1", "list2">>]
FlowsData == [data |-> <<"flow1">>]
EmailCampaigns == [data |-> <<"email1", "email2">>]
SmsCampaigns == [data |-> <<"sms1">>]
MetricOrder == <<"P", "R", "V", "D", "A", "S", "O", "N">>
UpstreamCount(id) == 10 + (CHOOSE i \in 1..Len(MetricOrder) : MetricOrder[i] = id)
CountResponse(id) ==
  [data |-> Some(<<Group(Some(Measurements(None, Some(Num(UpstreamCount(id))), None)), None)>>)]
DetailOf(id) == [data |-> [id |-> id, type |-> "metric"]]   \* id: the optional id asked for
RevenueResponse ==
  [data |-> Some(<<Group(Some(Measurements(None, None, Some(Num(250)))), None)>>)]
RevenueEvents == [data |-> Some(<<Some(40), None, Some(2)>>)]

\* Lines 1189-1248: the value queryMetricAggregates returns for an answer.
QueryResult(response, by) ==
  LET acc == IF IsSome(response.data)
             THEN ForEachGroup(Get(response.data), 1, by,
                               [total |-> 0, grouped |-> EmptyGrouped, raised |-> FALSE])
             ELSE [total |-> 0, grouped |-> EmptyGrouped, raised |-> FALSE]
  IN  IF acc.raised
      THEN [total |-> 0, grouped |-> EmptyGrouped]
      ELSE [total |-> acc.total, grouped |-> acc.grouped]

\* Lines 1448-1495: the value calculateRevenueByMetricId returns for an answer.
RevenueFromAggregate(response) ==
  LET groups == IF IsSome(response.data) THEN Get(response.data) ELSE <<>> IN
  [totalRevenue |-> SumOver(groups, RevenueOf),
   eventCount |-> SumOver(groups, CountOf),
   eventsWithRevenue |-> None,
   method |-> "metric-aggregates"]

\* Lines 1517-1537: the value calculateRevenueFromEvents returns for an answer.
RevenueFromEvents(eventsResponse) ==
  LET events == IF IsSome(eventsResponse.data) THEN Get(eventsResponse.data) ELSE <<>> IN
  [totalRevenue |-> SumOver(events, EventRevenue),
   eventCount |-> Len(events),
   eventsWithRevenue |-> Some(SumOver(events, EventHasRevenue)),
   method |-> "events"]

\* Lines 727-736, 739-746, 1252-1259, 1295-1302 and 820-825: what the
\* service method of a slot of the first fan-out returns, by the outcome of
\* its makeRequest call.
AccountFallback == [name |-> "Klaviyo Account", contact_email |-> "N/A"]
EmptyList == [data |-> <<>>]
Fetched(slot, cat) ==
  CASE slot = "account" -> AccountData
    [] slot = "metrics" -> [data |-> cat]
    [] slot = "campaignsEmail" -> EmailCampaigns
    [] slot = "campaignsSms" -> SmsCampaigns
    [] slot = "lists" -> ListsData
    [] slot = "flows" -> FlowsData
\* PlaceholderList: a failed request answered with a list of one placeholder
\* entry instead of the empty list.
PlaceholderList(slot) == [data |-> <<"placeholder">>]
Fallback(slot) == IF slot = "account" THEN AccountFallback ELSE EmptyList
MethodResult(slot, o, cat) == IF o = "ok" THEN Fetched(slot, cat) ELSE Fallback(slot)

\* CampaignsInSettleOrder: the channels joined in the order their requests
\* settled instead of the order they were started in.
CampaignsInSettleOrder(out, cat) ==
  LET email == MethodResult("campaignsEmail", out["campaignsEmail"], cat).data
      sms == MethodResult("campaignsSms", out["campaignsSms"], cat).data
  IN  [data |-> IF firstSettled.fanout = "campaignsSms" THEN sms \o email ELSE email \o sms]

\* Lines 828-837: getCampaigns joins the two channels.
CampaignsResult(out, cat) ==
  [data |-> MethodResult("campaignsEmail", out["campaignsEmail"], cat).data
              \o MethodResult("campaignsSms", out["campaignsSms"], cat).data]

\* Lines 1604-1605, 1769, 1773: status === 'fulfilled' && !value.error ? value : null.
ValueOrNull(value) == IF "error" \in DOMAIN value THEN None ELSE Some(value)

\* Lines 1680-1690: the count getEventCountByMetricId returns.
EventCount(metricId, o) ==
  IF ~IsSome(metricId) THEN 0
  ELSE IF o = "ok" THEN QueryResult(CountResponse(Get(metricId)), None).total
  ELSE 0

\* Lines 1768-1780: the snapshot (the timestamp left out).
MakeSnapshot(out, cat, ev, mwd, rev) ==
  LET campaignsData == ValueOrNull(CampaignsResult(out, cat))
      flowsData == ValueOrNull(MethodResult("flows", out["flows"], cat))
  IN  [account |-> ValueOrNull(MethodResult("account", out["account"], cat)),
       metrics |-> ValueOrNull(MethodResult("metrics", out["metrics"], cat)),
       metricsWithDetails |-> mwd,
       campaigns |-> campaignsData,
       lists |-> ValueOrNull(MethodResult("lists", out["lists"], cat)),
       flows |-> flowsData,
       campaignCount |-> IF IsSome(campaignsData) THEN Len(Get(campaignsData).data) ELSE 0,
       flowCount |-> IF IsSome(flowsData) THEN Len(Get(flowsData).data) ELSE 0,
       eventMetrics |-> ev,
       revenueMetrics |-> rev]

FanOut == <<"account", "metrics", "campaignsEmail", "campaignsSms", "lists", "flows">>
Range(q) == {q[i] : i \in 1..Len(q)}
DetailCap == 20
DetailSlot(i) == "detail" \o ToString(i)
NoOutcome == [s \in {} |-> ""]
Record(out, slot, o) == [s \in (DOMAIN out) \cup {slot} |-> IF s = slot THEN o ELSE out[s]]
Outcomes == {"ok", "fail"}

\* server.js lines 142-166: the state of one GET /api/dashboard/metrics.
NoRoute == [pc |-> "idle", header |-> None, clientId |-> None, res |-> None]
InitRoute == route = NoRoute

\* server.js lines 156-158: when the build the route awaits returns, the
\* route answers with the snapshot (res.json answers 200).
RouteResponds ==
  route' = IF route.pc = "building" /\ bPc' = "returned"
           THEN [route EXCEPT !.pc = "responded",
                              !.res = Some([status |-> 200, body |-> Get(snapshot')])]
           ELSE route

InitBuild ==
  /\ bPc = "idle"
  /\ pendingReq = {}
  /\ issued = <<>>
  /\ outcome = NoOutcome
  /\ allMetrics = <<>>
  /\ metricIds = [placedOrder |-> None, viewedProduct |-> None,
                  addedToCart |-> None, activeOnSite |-> None]
  /\ eventMetrics = [placedOrder |-> 0, viewedProduct |-> 0, addedToCart |-> 0, activeOnSite |-> 0]
  /\ detailIdx = 0
  /\ details = <<>>
  /\ metricsWithDetails = None
  /\ revenueMetrics = [totalRevenue |-> 0, revenueByEmail |-> 0, revenueOverTime |-> <<>>]
  /\ snapshot = None
  /\ firstSettled = [fanout |-> "", counts |-> ""]

\* Lines 1592-1600: the build starts the five sub-fetches of the first
\* fan-out; getCampaigns starts one request per channel.
CallGetDashboardMetrics ==
  /\ bPc = "idle"
  /\ privateKey[1] # None
  /\ bPc' = "fanout"
  /\ pendingReq' = Range(FanOut)
  /\ issued' = FanOut
  /\ UNCHANGED <<catalog, outcome, allMetrics, metricIds, eventMetrics, detailIdx, details,
                 metricsWithDetails, revenueMetrics, snapshot>>
  /\ UNCHANGED <<limVars, reqVars, fetchVars, aggVars, campVars, firstSettled, uiVars>>
  /\ RouteResponds

\* Lines 1594-1624: a request of the first fan-out settles; when it is the
\* last one the build goes on and loads the catalog for the resolution.
FanOutSettles(slot, o) ==
  /\ bPc = "fanout"
  /\ slot \in pendingReq
  /\ outcome' = Record(outcome, slot, o)
  /\ IF pendingReq = {slot}
     THEN /\ bPc' = "catalog"
          /\ pendingReq' = {"allMetrics"}
          /\ issued' = Append(issued, "allMetrics")
     ELSE /\ pendingReq' = pendingReq \ {slot}
          /\ UNCHANGED <<bPc, issued>>
  /\ UNCHANGED <<catalog, allMetrics, metricIds, eventMetrics, detailIdx, details,
                 metricsWithDetails, revenueMetrics, snapshot>>
  /\ firstSettled' = IF firstSettled.fanout = ""
                     THEN [firstSettled EXCEPT !.fanout = slot] ELSE firstSettled
  /\ UNCHANGED <<limVars, reqVars, fetchVars, aggVars, campVars, uiVars>>
  /\ RouteResponds

\* Lines 1744, 773-776: getAllMetricsWithDetails starts and loads the catalog.
StartDetails(issuedNow) ==
  /\ bPc' = "detailsCatalog"
  /\ pendingReq' = {"metricsWithDetails"}
  /\ issued' = Append(issuedNow, "metricsWithDetails")
  /\ UNCHANGED <<detailIdx, details, metricsWithDetails, revenueMetrics, snapshot>>

\* Lines 1624-1718 (and 1720-1744 when no event count is queried): the
\* catalog of the resolution arrives, or getMetrics turned its failure into
\* an empty catalog; the four ids are resolved and the event counts of the
\* metrics found are queried together.
CatalogLoaded(o) ==
  /\ bPc = "catalog"
  /\ outcome' = Record(outcome, "allMetrics", o)
  /\ allMetrics' = IF o = "ok" THEN catalog ELSE <<>>
  /\ metricIds' = ResolveMetricIds(allMetrics')
  /\ LET queries == SelectSeq(EventNames, LAMBDA n : CountQueried(metricIds'[n])) IN
     IF queries = <<>>
     THEN StartDetails(issued)
     ELSE /\ bPc' = "counts"
          /\ pendingReq' = Range(queries)
          /\ issued' = issued \o queries
          /\ UNCHANGED <<detailIdx, details, metricsWithDetails, revenueMetrics, snapshot>>
  /\ UNCHANGED <<catalog, eventMetrics>>
  /\ UNCHANGED <<limVars, reqVars, fetchVars, aggVars, campVars, firstSettled, uiVars>>
  /\ RouteResponds

\* Lines 1676-1691, 1718-1744: an event-count query settles; when it is the
\* last one the counts are stored and getAllMetricsWithDetails starts.
CountSettles(slot, o) ==
  /\ bPc = "counts"
  /\ slot \in pendingReq
  /\ outcome' = Record(outcome, slot, o)
  /\ IF pendingReq = {slot}
     THEN /\ eventMetrics' =
               [n \in DOMAIN eventMetrics |->
                  IF n \in DOMAIN outcome' THEN EventCount(metricIds[n], outcome'[n]) ELSE 0]
          /\ StartDetails(issued)
     ELSE /\ pendingReq' = pendingReq \ {slot}
          /\ UNCHANGED <<bPc, issued, eventMetrics, detailIdx, details, metricsWithDetails,
                         revenueMetrics, snapshot>>
  /\ UNCHANGED <<catalog, allMetrics, metricIds>>
  /\ firstSettled' = IF firstSettled.counts = ""
                     THEN [firstSettled EXCEPT !.counts = slot] ELSE firstSettled
  /\ UNCHANGED <<limVars, reqVars, fetchVars, aggVars, campVars, uiVars>>
  /\ RouteResponds

\* Lines 1768-1780: the build returns the snapshot.
ReturnSnapshot(mwd, rev) ==
  /\ bPc' = "returned"
  /\ pendingReq' = {}
  /\ revenueMetrics' = rev
  /\ snapshot' = Some(MakeSnapshot(outcome', catalog, eventMetrics, mwd, rev))
  /\ UNCHANGED issued

\* RevenueAlways: the revenue calculated whether or not the placed-order
\* metric was found.
RevenueAlways(mwd) ==
  /\ metricsWithDetails' = mwd
  /\ bPc' = "revenue"
  /\ pendingReq' = {"revenue"}
  /\ issued' = Append(issued, "revenue")
  /\ UNCHANGED <<revenueMetrics, snapshot>>

\* Lines 1744-1766: getAllMetricsWithDetails returned mwd; the revenue of
\* the placed-order metric is calculated when that metric was found.
AfterDetails(mwd) ==
  /\ metricsWithDetails' = mwd
  /\ IF IsSome(metricIds.placedOrder)
     THEN /\ bPc' = "revenue"
          /\ pendingReq' = {"revenue"}
          /\ issued' = Append(issued, "revenue")
          /\ UNCHANGED <<revenueMetrics, snapshot>>
     ELSE ReturnSnapshot(mwd, revenueMetrics)

\* The catalog getAllMetricsWithDetails works on, and the entries it fetches.
DetailsCatalog(out, cat) == IF out["metricsWithDetails"] = "ok" THEN cat ELSE <<>>
FetchAll(metrics) == metrics   \* FetchAll: a detail request for every entry
\* FetchOneMore: the slice taken one entry past the cap.
FetchOneMore(metrics) ==
  SubSeq(metrics, 1, IF Len(metrics) < DetailCap + 1 THEN Len(metrics) ELSE DetailCap + 1)
MetricsToFetch(metrics) ==
  SubSeq(metrics, 1, IF Len(metrics) < DetailCap THEN Len(metrics) ELSE DetailCap)

\* Lines 776-790: the catalog of getAllMetricsWithDetails arrives (or is
\* empty after a failure); the detail of the first entry is requested.
DetailsCatalogLoaded(o) ==
  /\ bPc = "detailsCatalog"
  /\ outcome' = Record(outcome, "metricsWithDetails", o)
  /\ LET metrics == DetailsCatalog(outcome', catalog) IN
     IF Len(metrics) = 0
     THEN /\ AfterDetails(Some([metrics |-> <<>>, details |-> <<>>, total |-> None]))
          /\ UNCHANGED <<detailIdx, details>>
     ELSE /\ bPc' = "detail"
          /\ detailIdx' = 1
          /\ details' = <<>>
          /\ pendingReq' = {DetailSlot(1)}
          /\ issued' = Append(issued, DetailSlot(1))
          /\ UNCHANGED <<metricsWithDetails, revenueMetrics, snapshot>>
  /\ UNCHANGED <<catalog, allMetrics, metricIds, eventMetrics>>
  /\ UNCHANGED <<limVars, reqVars, fetchVars, aggVars, campVars, firstSettled, uiVars>>
  /\ RouteResponds

\* Lines 788-806 with 749-757: a detail request settles (getMetricById
\* returns null for a failure, which is not kept); the next entry is
\* requested, or getAllMetricsWithDetails returns.
DetailSettles(o) ==
  /\ bPc = "detail"
  /\ outcome' = Record(outcome, DetailSlot(detailIdx), o)
  /\ LET metrics == DetailsCatalog(outcome, catalog)
         metricsToFetch == MetricsToFetch(metrics)
         kept == IF o = "ok"
                 THEN Append(details, DetailOf(metricsToFetch[detailIdx].id))
                 ELSE details
     IN  /\ details' = kept
         /\ IF detailIdx < Len(metricsToFetch)
            THEN /\ detailIdx' = detailIdx + 1
                 /\ pendingReq' = {DetailSlot(detailIdx + 1)}
                 /\ issued' = Append(issued, DetailSlot(detailIdx + 1))
                 /\ UNCHANGED <<bPc, metricsWithDetails, revenueMetrics, snapshot>>
            ELSE /\ AfterDetails(Some([metrics |-> metrics, details |-> kept,
                                       total |-> Some(Len(metrics))]))
                 /\ UNCHANGED detailIdx
  /\ UNCHANGED <<catalog, allMetrics, metricIds, eventMetrics>>
  /\ UNCHANGED <<limVars, reqVars, fetchVars, aggVars, campVars, firstSettled, uiVars>>
  /\ RouteResponds

\* Lines 1751-1757 with 1443-1500: the aggregate request of the revenue
\* settles: its total is stored, or the event-based calculation starts.
RevenueSettles(o) ==
  /\ bPc = "revenue"
  /\ outcome' = Record(outcome, "revenue", o)
  /\ IF o = "ok"
     THEN ReturnSnapshot(metricsWithDetails,
            [revenueMetrics EXCEPT
               !.totalRevenue = RevenueFromAggregate(RevenueResponse).totalRevenue,
               !.revenueByEmail = RevenueFromAggregate(RevenueResponse).totalRevenue])
     ELSE /\ bPc' = "revenueEvents"
          /\ pendingReq' = {"revenueEvents"}
          /\ issued' = Append(issued, "revenueEvents")
          /\ UNCHANGED <<revenueMetrics, snapshot>>
  /\ UNCHANGED <<catalog, allMetrics, metricIds, eventMetrics, detailIdx, details,
                 metricsWithDetails>>
  /\ UNCHANGED <<limVars, reqVars, fetchVars, aggVars, campVars, firstSettled, uiVars>>
  /\ RouteResponds

\* Lines 1516-1546, 1756-1780: the events request of the fallback settles.
RevenueEventsSettle(o) ==
  /\ bPc = "revenueEvents"
  /\ outcome' = Record(outcome, "revenueEvents", o)
  /\ LET total == IF o = "ok" THEN RevenueFromEvents(RevenueEvents).totalRevenue ELSE 0 IN
     ReturnSnapshot(metricsWithDetails,
       [revenueMetrics EXCEPT !.totalRevenue = total, !.revenueByEmail = total])
  /\ UNCHANGED <<catalog, allMetrics, metricIds, eventMetrics, detailIdx, details,
                 metricsWithDetails>>
  /\ UNCHANGED <<limVars, reqVars, fetchVars, aggVars, campVars, firstSettled, uiVars>>
  /\ RouteResponds

\* ------------------------------------------------------------------------
\* GET /api/dashboard/metrics (server.js) behind authenticateToken (auth.js)
\*
\* The Authorization header is the optional sequence of its words (split on
\* ' '); its second word is a token [signed, expired, clientId] or the
\* empty text.  signed says that the signature verifies under JWT_SECRET.
\* ------------------------------------------------------------------------
Token(signed, expired, clientId) == [signed |-> signed, expired |-> expired, clientId |-> clientId]
EmptyWord == [text |-> ""]

\* auth.js line 33: authHeader && authHeader.split(' ')[1].
BearerToken(header) ==
  IF IsSome(header) /\ Len(Get(header)) >= 2 /\ Get(header)[2] # EmptyWord
  THEN Some(Get(header)[2]) ELSE None

\* DecodeOnly: the payload read without verifying signature or expiry.
DecodeOnly(token) == Some([clientId |-> token.clientId])

\* auth.js lines 12-18: jwt.verify returns the payload of a token whose
\* signature verifies and that has not expired, and throws otherwise.
verifyToken(token) ==
  IF token.signed /\ ~token.expired THEN Some([clientId |-> token.clientId]) ELSE None

\* database.js lines 74-88: the clients table, and the row of an id
\* (undefined when there is none).
StoredKeys == [id \in {1, 2} |-> IF id = 1 THEN "pk_A" ELSE "pk_B"]
getClientById(id) ==
  IF IsSome(id) /\ Get(id) \in DOMAIN StoredKeys
  THEN Some([id |-> Get(id), klaviyo_private_key |-> StoredKeys[Get(id)]])
  ELSE None

Respond(status, body) == Some([status |-> status, body |-> body])

\* auth.js lines 31-46 and server.js lines 142-147: a request arrives; the
\* middleware answers 401 or 403, or sets req.clientId and the handler
\* starts the lookup of the client.
RouteRequest(header) ==
  /\ route.pc = "idle"
  /\ LET token == BearerToken(header)
         decoded == IF IsSome(token) THEN verifyToken(Get(token)) ELSE None
     IN  route' =
           IF ~IsSome(token)
           THEN [route EXCEPT !.pc = "responded", !.header = header,
                              !.res = Respond(401, "Access token required")]
           ELSE IF ~IsSome(decoded)
           THEN [route EXCEPT !.pc = "responded", !.header = header,
                              !.res = Respond(403, "Invalid or expired token")]
           ELSE [route EXCEPT !.pc = "lookup", !.header = header,
                              !.clientId = Get(decoded).clientId]
  /\ UNCHANGED <<limVars, reqVars, fetchVars, aggVars, buildVars, campVars, uiVars>>

\* Lines 1592-1600 of the service, for the route: the build starts its
\* first fan-out.
StartBuild ==
  /\ bPc' = "fanout"
  /\ pendingReq' = Range(FanOut)
  /\ issued' = FanOut
  /\ UNCHANGED <<catalog, outcome, allMetrics, metricIds, eventMetrics, detailIdx, details,
                 metricsWithDetails, revenueMetrics, snapshot, firstSettled>>

\* server.js lines 147-156: the lookup answers.  Without a row the route
\* answers 404; with one it constructs the service for the row's key and
\* awaits getDashboardMetrics.
ClientLookup ==
  /\ route.pc = "lookup"
  /\ LET client == getClientById(route.clientId) IN
     IF ~IsSome(client)
     THEN /\ route' = [route EXCEPT !.pc = "responded", !.res = Respond(404, "Client not found")]
          /\ UNCHANGED <<limVars, buildVars>>
     ELSE /\ bPc = "idle"
          /\ route' = [route EXCEPT !.pc = "building"]
          /\ privateKey' = [privateKey EXCEPT ![1] = Some(Get(client).klaviyo_private_key)]
          /\ lastRequestTime' = [lastRequestTime EXCEPT ![1] = 0]
          /\ StartBuild
          /\ UNCHANGED <<now, admitted>>
  /\ UNCHANGED <<reqVars, fetchVars, aggVars, campVars, uiVars>>

\* server.js lines 147, 159-165 and database.js lines 80-81: the lookup
\* fails and the route answers 500.
ClientLookupFails ==
  /\ route.pc = "lookup"
  /\ route' = [route EXCEPT !.pc = "responded",
                            !.res = Respond(500, "Failed to fetch Klaviyo metrics")]
  /\ UNCHANGED <<limVars, reqVars, fetchVars, aggVars, buildVars, campVars, uiVars>>

\* ------------------------------------------------------------------------
\* getCampaigns
\*
\* The answer of a channel is Answer(ok, data, error): data is the body
\* makeRequest returned, [data |-> optional list of campaigns], error the
\* failed response makeRequest threw for.
\* ------------------------------------------------------------------------
Channels == <<"email", "sms">>
CampaignsEndpoint == <<"campaigns">>

\* Lines 820-825: the request of a channel.
CampaignsRequest(channel) ==
  [endpoint |-> CampaignsEndpoint, method |-> "GET",
   filter |-> <<"equals(messages.channel,'", channel, "')">>]

\* Lines 822, 825, 828-829: the value of a settled channel; a failure of
\* makeRequest has become { data: [] }.
ChannelData(answer) == IF answer.ok THEN answer.data ELSE [data |-> Some(<<>>)]

\* Lines 833, 834: data || [].
ItemsOrEmpty(body) == IF IsSome(body.data) THEN Get(body.data) ELSE <<>>

\* SmsFirst: the two channels joined in the other order.
SmsFirst(emailData, smsData) == ItemsOrEmpty(smsData) \o ItemsOrEmpty(emailData)

\* Lines 832-835: allCampaigns.
AllCampaigns(emailData, smsData) == ItemsOrEmpty(emailData) \o ItemsOrEmpty(smsData)

NoAnswer == [c \in {} |-> 0]

InitCampaigns ==
  /\ campPc = "idle"
  /\ campIssued = <<>>
  /\ campAnswer = NoAnswer
  /\ campResult = None

\* Lines 816-826: getCampaigns hands one request per channel to makeRequest
\* and awaits both.
CallGetCampaigns ==
  /\ campPc = "idle"
  /\ privateKey[1] # None
  /\ campPc' = "awaiting"
  /\ campIssued' = [i \in 1..Len(Channels) |-> CampaignsRequest(Channels[i])]
  /\ UNCHANGED <<campAnswer, campResult>>
  /\ UNCHANGED <<limVars, reqVars, fetchVars, aggVars, buildVars, route, uiVars>>

\* Lines 826-837: the request of a channel settles; when both have settled
\* the campaigns of the two channels are joined and returned.
ChannelSettles(channel, answer) ==
  /\ campPc = "awaiting"
  /\ channel \notin DOMAIN campAnswer
  /\ campAnswer' = [c \in (DOMAIN campAnswer) \cup {channel} |->
                      IF c = channel THEN answer ELSE campAnswer[c]]
  /\ IF DOMAIN campAnswer' = Range(Channels)
     THEN /\ campPc' = "returned"
          /\ campResult' = Some([data |-> AllCampaigns(ChannelData(campAnswer'["email"]),
                                                       ChannelData(campAnswer'["sms"]))])
     ELSE UNCHANGED <<campPc, campResult>>
  /\ UNCHANGED campIssued
  /\ UNCHANGED <<limVars, reqVars, fetchVars, aggVars, buildVars, route, uiVars>>

\* Lines 820-822, 823-825: makeRequest returns the body of a channel.
ChannelReturns(channel, body) == ChannelSettles(channel, Answer(TRUE, body, NoError))

\* Lines 822, 825: makeRequest throws for a channel.
ChannelFails(channel, resp) ==
  ChannelSettles(channel, Answer(FALSE, [data |-> None], ThrownFor(resp)))

\* ------------------------------------------------------------------------
\* The Dashboard component (frontend/src/components/Dashboard.js; the copy
\* in client/src/components differs in the request URL only)
\*
\* view is [mounted, timer, metrics, loading, error, inflight, started,
\* ticks, failures]: mounted is "no", "yes" or "gone"; timer the optional
\* period of the running interval; inflight the requests not yet settled;
\* started, ticks and failures count the fetches started, the timer ticks
\* and the fetches that failed.  React drops a state update of a component
\* that is no longer mounted.
\* ------------------------------------------------------------------------
RefreshMs == 300000
DefaultLoadError == "Failed to load metrics"
NoView ==
  [mounted |-> "no", timer |-> None, metrics |-> None, loading |-> TRUE, error |-> "",
   inflight |-> 0, started |-> 0, ticks |-> 0, failures |-> 0]
InitView == view = NoView

\* Line 27: err.response?.data?.message || 'Failed to load metrics'.  An
\* error is the optional body of its response; message is an optional text.
LoadError(err) ==
  IF IsSome(err) /\ IsSome(Get(err).message) /\ Get(Get(err).message) # ""
  THEN Get(Get(err).message) ELSE DefaultLoadError

\* Lines 20-24: fetchMetrics up to its await.
StartFetch(v) ==
  LET sent == [v EXCEPT !.inflight = @ + 1, !.started = @ + 1] IN
  IF v.mounted = "yes" THEN [sent EXCEPT !.loading = TRUE, !.error = ""] ELSE sent

\* Lines 13-16: the effect of the first render fetches and starts the interval.
Mount ==
  /\ view.mounted = "no"
  /\ view' = [StartFetch([view EXCEPT !.mounted = "yes"]) EXCEPT !.timer = Some(RefreshMs)]
  /\ UNCHANGED <<limVars, reqVars, fetchVars, aggVars, buildVars, campVars, route, auth>>

\* Line 16: the interval fires and calls fetchMetrics.
TimerTick ==
  /\ IsSome(view.timer)
  /\ view.started < MaxFetches
  /\ view' = [StartFetch(view) EXCEPT !.ticks = @ + 1]
  /\ UNCHANGED <<limVars, reqVars, fetchVars, aggVars, buildVars, campVars, route, auth>>

\* Lines 54-59: the retry button, shown with the error, calls fetchMetrics.
RetryClick ==
  /\ view.mounted = "yes"
  /\ view.error # ""
  /\ view.started < MaxFetches
  /\ view' = StartFetch(view)
  /\ UNCHANGED <<limVars, reqVars, fetchVars, aggVars, buildVars, campVars, route, auth>>

\* Lines 24-25, 29-31: a request is answered; the metrics are replaced.
FetchSucceeds(data) ==
  /\ view.inflight > 0
  /\ view' = IF view.mounted = "yes"
             THEN [view EXCEPT !.inflight = @ - 1, !.metrics = Some(data), !.loading = FALSE]
             ELSE [view EXCEPT !.inflight = @ - 1]
  /\ UNCHANGED <<limVars, reqVars, fetchVars, aggVars, buildVars, campVars, route, auth>>

\* Lines 26-31: a request fails; the error is set and loading cleared.
FetchFails(err) ==
  /\ view.inflight > 0
  /\ view' = IF view.mounted = "yes"
             THEN [view EXCEPT !.inflight = @ - 1, !.failures = @ + 1,
                               !.error = LoadError(err), !.loading = FALSE]
             ELSE [view EXCEPT !.inflight = @ - 1, !.failures = @ + 1]
  /\ UNCHANGED <<limVars, reqVars, fetchVars, aggVars, buildVars, campVars, route, auth>>

\* LeaveTimer: the cleanup of the effect does not clear the interval.
LeaveTimer ==
  /\ view.mounted = "yes"
  /\ view' = [view EXCEPT !.mounted = "gone"]
  /\ UNCHANGED <<limVars, reqVars, fetchVars, aggVars, buildVars, campVars, route, auth>>

\* Line 17: the component unmounts; the cleanup clears the interval.
Unmount ==
  /\ view.mounted = "yes"
  /\ view' = [view EXCEPT !.mounted = "gone", !.timer = None]
  /\ UNCHANGED <<limVars, reqVars, fetchVars, aggVars, buildVars, campVars, route, auth>>

\* ------------------------------------------------------------------------
\* The AuthProvider (frontend/src/context/AuthContext.js)
\*
\* auth is [token, clientData, header, isAuthenticated, client, loading,
\* pending, calls, last, result]: token and clientData are the optional
\* localStorage items, header the optional default Authorization header,
\* pending the login requests not yet answered, calls the login calls made,
\* last the operation that ran last and result what the last login returned.
\* ------------------------------------------------------------------------
Stringify(clientData) == [json |-> clientData]             \* JSON.stringify
Parse(text) == text.json                                     \* JSON.parse
Bearer(token) == <<"Bearer", token>>                         \* `Bearer ${token}`
DefaultLoginError == "Login failed"
NoAuth(token, clientData) ==
  [token |-> token, clientData |-> clientData, header |-> None, isAuthenticated |-> FALSE,
   client |-> None, loading |-> TRUE, pending |-> 0, calls |-> 0, last |-> "", result |-> None]
InitAuth == auth = NoAuth(None, None)

\* Lines 16-27: the effect of the first render restores a stored session.
\* An empty stored string is falsy.
AuthMount ==
  /\ auth.loading
  /\ auth' = IF /\ IsSome(auth.token) /\ Get(auth.token) # ""
                /\ IsSome(auth.clientData)
             THEN [auth EXCEPT !.header = Some(Bearer(Get(auth.token))),
                               !.isAuthenticated = TRUE,
                               !.client = Some(Parse(Get(auth.clientData))),
                               !.loading = FALSE, !.last = "mount"]
             ELSE [auth EXCEPT !.loading = FALSE, !.last = "mount"]
  /\ UNCHANGED <<limVars, reqVars, fetchVars, aggVars, buildVars, campVars, route, view>>

\* Lines 29-31: login posts the credentials and awaits the answer.
Login ==
  /\ ~auth.loading
  /\ auth.calls < MaxLogins
  /\ auth' = [auth EXCEPT !.pending = @ + 1, !.calls = @ + 1, !.last = "login"]
  /\ UNCHANGED <<limVars, reqVars, fetchVars, aggVars, buildVars, campVars, route, view>>

\* Lines 32-40: the login is answered with a token and a client record.
LoginSucceeds(token, clientData) ==
  /\ auth.pending > 0
  /\ auth' = [auth EXCEPT !.token = Some(token),
                          !.clientData = Some(Stringify(clientData)),
                          !.header = Some(Bearer(token)),
                          !.isAuthenticated = TRUE,
                          !.client = Some(clientData),
                          !.pending = @ - 1, !.last = "loginOk",
                          !.result = Some([success |-> TRUE, error |-> None])]
  /\ UNCHANGED <<limVars, reqVars, fetchVars, aggVars, buildVars, campVars, route, view>>

\* Lines 41-46: the login fails; error.response?.data?.error || 'Login failed'.
LoginError(err) ==
  IF IsSome(err) /\ IsSome(Get(err).error) /\ Get(Get(err).error) # ""
  THEN Get(Get(err).error) ELSE DefaultLoginError
LoginFails(err) ==
  /\ auth.pending > 0
  /\ auth' = [auth EXCEPT !.pending = @ - 1, !.last = "loginFailed",
                          !.result = Some([success |-> FALSE, error |-> Some(LoginError(err))])]
  /\ UNCHANGED <<limVars, reqVars, fetchVars, aggVars, buildVars, campVars, route, view>>

\* LogoutKeepsClient: a logout that leaves the stored client record.
LogoutKeepsClient ==
  /\ ~auth.loading
  /\ auth' = [auth EXCEPT !.token = None, !.header = None,
                          !.isAuthenticated = FALSE, !.client = None, !.last = "logout"]
  /\ UNCHANGED <<limVars, reqVars, fetchVars, aggVars, buildVars, campVars, route, view>>

\* Lines 49-55: logout.
Logout ==
  /\ ~auth.loading
  /\ auth' = [auth EXCEPT !.token = None, !.clientData = None, !.header = None,
                          !.isAuthenticated = FALSE, !.client = None, !.last = "logout"]
  /\ UNCHANGED <<limVars, reqVars, fetchVars, aggVars, buildVars, campVars, route, view>>

\* ------------------------------------------------------------------------
\* Inputs
\* ------------------------------------------------------------------------
Txt(w) == <<w>>
ThrottleDetail == Txt("Request was throttled.")
PlainBody == Body(TRUE, <<Entry(Some(ThrottleDetail), None)>>, None)

\* Failed answers of the upstream in the runs with pages or several callers.
FewErrors == {Response(429, PlainBody), Response(500, PlainBody), NoResp}

OkData == [data |-> Some(<<1>>), next |-> None]

\* Upstream pages of a paginated fetch: page k names page k + 1 in its
\* cursor, the last page has none.
PageData == {None, Some(<<>>), Some(<<1>>), Some(<<2, 1>>)}
Linked(ds) ==
  [k \in 1..Len(ds) |->
     [data |-> ds[k],
      next |-> IF k < Len(ds) THEN Some(Url(BasePath \o EventsEndpoint, k + 1)) ELSE None]]
DataSeqs == UNION {[1..n -> PageData] : n \in 1..MaxPages}
\* Three pages of 100, 100 and 50 events.
FullPages ==
  Linked(<<Some([i \in 1..PageSize |-> i]),
           Some([i \in 1..PageSize |-> PageSize + i]),
           Some([i \in 1..(PageSize \div 2) |-> 2 * PageSize + i])>>)
\* Two pages whose first cursor repeats the API root in its path.
RepeatedRoot ==
  <<[data |-> Some(<<1>>), next |-> Some(Url(BasePath \o BasePath \o EventsEndpoint, 2))],
    [data |-> Some(<<2>>), next |-> None]>>
\* Three pages whose last cursor points back to the second page.
CursorLoop ==
  [k \in 1..3 |->
     [data |-> Some(<<k>>),
      next |-> Some(Url(BasePath \o EventsEndpoint, IF k < 3 THEN k + 1 ELSE 2))]]
PageSeqs == {Linked(ds) : ds \in DataSeqs} \cup {FullPages, RepeatedRoot, CursorLoop}

\* Upstream answers to an aggregate query: every sequence of up to MaxGroups
\* result groups, and the answer without a result array.
AggMeasurements ==
  {None,
   Some(Measurements(Some(Num(2)), None, None)),
   Some(Measurements(None, Some(Num(3)), Some(Num(7)))),
   Some(Measurements(None, Some(Num(0)), None)),
   Some(Measurements(None, Some(Num(5)), None)),
   Some(Measurements(None, Some(Arr(<<Some(4), Some(0), Some(2)>>)), None)),
   Some(Measurements(None, None, Some(Arr(<<Some(10), Some(20), Some(30)>>)))),
   Some(Measurements(None, None, Some(Arr(<<Some(1), None>>))))}
AggDimensions ==
  {None,
   Some(<<Dimension(None, None, None, None)>>),
   Some(<<Dimension(Some("m1"), None, Some("f1"), None)>>),
   Some(<<Dimension(None, Some("m1"), None, None)>>)}
AggGroups == {Group(ms, ds) : ms \in AggMeasurements, ds \in AggDimensions}
GroupSeqs == UNION {[1..n -> AggGroups] : n \in 0..MaxGroups}
AggResponses == {[data |-> None]} \cup {[data |-> Some(gs)] : gs \in GroupSeqs}
EventsResponses ==
  {[data |-> None], [data |-> Some(<<>>)], [data |-> Some(<<Some(5)>>)],
   [data |-> Some(<<Some(5), None, Some(0), Some(2)>>)]}

\* Arguments of the callers.
MetricIds == {"PO1"}
DateFilters == <<GreaterOrEqual(<<"2024-01-01T00:00:00">>), LessThan(<<"2024-02-01T00:00:00">>)>>
QueryOption(ms, fs, iv, by) ==
  [measurements |-> ms, filters |-> fs, interval |-> iv, timezone |-> "UTC", by |-> by]
QueryOptions ==
  {QueryOption(<<"count">>, <<>>, None, None),
   QueryOption(<<"count">>, DateFilters, None, Some(<<>>)),
   QueryOption(<<"count">>, <<>>, None, Some(<<"$attributed_message">>)),
   QueryOption(<<"sum_value">>, <<>>, None, Some(<<"$attributed_message">>)),
   QueryOption(<<"sum_value">>, DateFilters, Some("day"), None),
   QueryOption(<<"sum_value">>, DateFilters, Some("day"), Some(<<"$attributed_message">>))}
RevenueOption(sd, ed, iv, am) ==
  [startDate |-> sd, endDate |-> ed, interval |-> iv, timezone |-> "UTC",
   attributedMessage |-> am]
RevenueOptions ==
  {RevenueOption(None, None, None, None),
   RevenueOption(Some(<<>>), None, Some("day"), None),
   RevenueOption(Some(<<"2024-01-01T00:00:00">>), None, None, None),
   RevenueOption(Some(<<"2024-01-01T00:00:00">>), Some(<<"2024-02-01T00:00:00">>),
                 Some("day"), Some(<<"m1">>))}

\* Catalogs of the tenant: entries whose names contain a searched name, match
\* it exactly or only by case, and entries without a name or an id.
MP == Metric(Some("P"), Some(<<"P", "l", "a", "c", "e", "d", " ", "O", "r", "d", "e", "r">>), None)
MR == Metric(Some("R"), Some(<<"P", "l", "a", "c", "e", "d", " ", "O", "r", "d", "e", "r", " ", "R", "e", "f", "u", "n", "d">>), None)
MV == Metric(Some("V"), Some(<<"V", "i", "e", "w", "e", "d", " ", "P", "r", "o", "d", "u", "c", "t">>), None)
MD == Metric(Some("D"), Some(<<"V", "i", "e", "w", "e", "d", " ", "P", "r", "o", "d", "u", "c", "t", " ", "D", "e", "t", "a", "i", "l">>), None)
MA == Metric(Some("A"), None, Some(<<"A", "D", "D", "E", "D", " ", "T", "O", " ", "C", "A", "R", "T">>))
MS == Metric(Some("S"), Some(<<"A", "c", "t", "i", "v", "e", " ", "o", "n", " ", "S", "i", "t", "e">>), None)
MO == Metric(Some("O"), Some(<<"O", "p", "e", "n", "e", "d", " ", "E", "m", "a", "i", "l">>), None)
NoId == Metric(None, Some(<<"P", "l", "a", "c", "e", "d", " ", "O", "r", "d", "e", "r">>), None)
NoName == Metric(Some("N"), None, None)
Catalogs ==
  {<<>>, <<MR, MP>>, <<MD, MV>>, <<MO, MA, MS>>, <<NoId, NoName>>}


\* Answers of the upstream to the request of a channel.
CampaignItems == {"c1", "c2"}
CampaignLists == UNION {[1..n -> CampaignItems] : n \in 0..MaxCampaigns}
CampaignBodies == {[data |-> None]} \cup {[data |-> Some(l)] : l \in CampaignLists}

\* Authorization headers: none, a scheme without a token, an empty token,
\* and every token (well or badly signed, expired or not, naming a client of
\* the table, a client that is not in it, or none) under two schemes.
ClientIds == {None, Some(1), Some(2), Some(9)}
Tokens == {Token(sg, ex, id) : sg \in BOOLEAN, ex \in BOOLEAN, id \in ClientIds}
Headers ==
  {None, Some(<<"Bearer">>), Some(<<"Bearer", EmptyWord>>)}
    \cup {Some(<<scheme, t>>) : scheme \in {"Bearer", "Token"}, t \in Tokens}

\* Catalogs at and beyond the cap of getAllMetricsWithDetails: entries that
\* match no search name, followed by Placed Order.
Filler(i) == Metric(Some("m" \o ToString(i)), None, Some(<<"X">>))
LongCatalog(n) == [i \in 1..n |-> IF i = n THEN MP ELSE Filler(i)]
LongCatalogs == {LongCatalog(DetailCap), LongCatalog(DetailCap + 2)}

\* Answers to the Dashboard's request and to the login.
Snapshots == {"snapshotA", "snapshotB"}
LoadFailures == {None, Some([message |-> None]), Some([message |-> Some("")]),
                 Some([message |-> Some("upstream down")])}
SessionTokens == {"t1", "t2"}
ClientRecords == {[id |-> 1, name |-> "A"], [id |-> 2, name |-> "B"]}
LoginFailures == {None, Some([error |-> None]),
                  Some([error |-> Some("Invalid email or password")])}
StoredSessions ==
  {NoAuth(None, None), NoAuth(Some("t1"), None), NoAuth(Some(""), Some(Stringify([id |-> 1, name |-> "A"]))),
   NoAuth(Some("t1"), Some(Stringify([id |-> 1, name |-> "A"])))}

\* ------------------------------------------------------------------------
\* Specifications
\* ------------------------------------------------------------------------
Init ==
  /\ InitService
  /\ InitTasks
  /\ InitAggregate
  /\ InitBuild
  /\ InitCampaigns
  /\ InitRoute
  /\ InitView
  /\ InitAuth
  /\ catalog = <<>>
  /\ pages = Linked(<<Some(<<1>>)>>)

\* Several callers on one or two service instances.
LimTasks == Tasks
NextLimiter ==
  \/ \E s \in Services, k \in Keys : DashboardRoute(s, k)
  \/ \E t \in LimTasks, s \in Services : CallMakeRequest(t, s)
  \/ \E t \in LimTasks : RateLimitWake(t)
  \/ \E t \in LimTasks : RespondOk(t, OkData)
  \/ \E t \in LimTasks : Fail(t, Response(500, PlainBody))
  \/ \E d \in Steps : Tick(d, MaxTime, LimTasks)
  \/ \E t \in LimTasks : AdvanceToTimer(t)
SpecLimiter == Init /\ [][NextLimiter]_vars

\* One paginated fetch against every upstream page sequence.
InitFetch ==
  /\ InitService
  /\ InitTasks
  /\ InitAggregate
  /\ InitBuild
  /\ InitCampaigns
  /\ InitRoute
  /\ InitView
  /\ InitAuth
  /\ catalog = <<>>
  /\ pages \in PageSeqs
NextFetch ==
  \/ DashboardRoute(1, "pk_A")
  \/ CallGetAllEvents(1, 1)
  \/ RateLimitWake(1)
  \/ PageResponse(1)
  \/ \E r \in FewErrors : Throttled(1, r)
  \/ BackoffWake(1)
  \/ \E r \in FewErrors : Fail(1, r)
  \/ Tick(minRequestInterval, MaxFetchTime, {1})
  \/ AdvanceToTimer(1)
SpecFetch == InitFetch /\ [][NextFetch]_vars

\* One logical request against every upstream answer.
Segs == {<<>>, <<"2">>, <<"0">>, <<" ">>, SecondWord,
         <<"S", "E", "C", "O", "N", "D", "S">>, <<"x">>, <<"s", "e", "c">>}
Details == {a \o b \o c : a \in Segs, b \in Segs, c \in Segs}
Title == Txt("Too Many Requests")
ThrottleBodies ==
  {EmptyBody, Body(TRUE, <<>>, None), Body(TRUE, <<Entry(None, Some(Title))>>, None)}
    \cup {Body(TRUE, <<Entry(Some(d), None)>>, None) : d \in Details}
FailBodies ==
  {EmptyBody,
   Body(FALSE, <<>>, Some(Txt("Bad Gateway"))),
   Body(TRUE, <<>>, None),
   Body(TRUE, <<Entry(None, None)>>, None),
   Body(TRUE, <<Entry(None, Some(Title))>>, None),
   Body(TRUE, <<Entry(Some(<<>>), Some(Title))>>, None),
   Body(TRUE, <<Entry(Some(ThrottleDetail), Some(Title))>>, None)}
RichErrors ==
  {Response(429, b) : b \in ThrottleBodies}
    \cup {Response(st, b) : st \in {429, 404, 500}, b \in FailBodies}
    \cup {NoResp}

NextRequest ==
  \/ DashboardRoute(1, "pk_A")
  \/ CallMakeRequest(1, 1)
  \/ RateLimitWake(1)
  \/ RespondOk(1, OkData)
  \/ \E r \in RichErrors : Throttled(1, r)
  \/ BackoffWake(1)
  \/ \E r \in RichErrors : Fail(1, r)
  \/ AdvanceToTimer(1)
SpecRequest == Init /\ [][NextRequest]_vars

\* Two logical requests on one service instance, each with its own retries.
PairTasks == {1, 2}
NextPair ==
  \/ DashboardRoute(1, "pk_A")
  \/ \E t \in PairTasks : CallMakeRequest(t, 1)
  \/ \E t \in PairTasks : RateLimitWake(t)
  \/ \E t \in PairTasks : RespondOk(t, OkData)
  \/ \E t \in PairTasks, r \in FewErrors : Throttled(t, r)
  \/ \E t \in PairTasks : BackoffWake(t)
  \/ \E t \in PairTasks, r \in FewErrors : Fail(t, r)
  \/ \E t \in PairTasks : AdvanceToTimer(t)
SpecPair == Init /\ [][NextPair]_vars

\* One aggregate query or one revenue calculation against every upstream answer.
NextAggregate ==
  \/ \E m \in MetricIds, o \in QueryOptions : CallQueryMetricAggregates(m, o)
  \/ aggPc = "awaiting" /\ \E r \in AggResponses : QueryReturns(r)
  \/ \E r \in FewErrors : QueryFails(r)
  \/ \E m \in MetricIds, o \in RevenueOptions : CallCalculateRevenue(m, o)
  \/ aggPc = "awaiting" /\ \E r \in AggResponses : RevenueReturns(r)
  \/ \E r \in FewErrors : RevenueFails(r)
  \/ \E r \in EventsResponses : EventsReturn(r)
  \/ \E r \in FewErrors : EventsFail(r)
SpecAggregate == Init /\ [][NextAggregate]_vars

\* One build of the dashboard against every catalog and every outcome of
\* every request.
InitDashboard ==
  /\ InitService
  /\ InitTasks
  /\ InitAggregate
  /\ InitBuild
  /\ InitCampaigns
  /\ InitRoute
  /\ InitView
  /\ InitAuth
  /\ catalog \in Catalogs
  /\ pages = Linked(<<Some(<<1>>)>>)
NextBuild ==
  \/ DashboardRoute(1, "pk_A")
  \/ CallGetDashboardMetrics
  \/ \E slot \in Range(FanOut), o \in Outcomes : FanOutSettles(slot, o)
  \/ \E o \in Outcomes : CatalogLoaded(o)
  \/ \E slot \in Range(EventNames), o \in Outcomes : CountSettles(slot, o)
  \/ \E o \in Outcomes : DetailsCatalogLoaded(o)
  \/ \E o \in Outcomes : DetailSettles(o)
  \/ \E o \in Outcomes : RevenueSettles(o)
  \/ \E o \in Outcomes : RevenueEventsSettle(o)
SpecBuild == InitDashboard /\ [][NextBuild]_vars

\* The same build where the program takes every step it can take on its
\* own.  No request of the build carries a timeout and the build has no
\* deadline (lines 677-695, 1592-1600), so nothing obliges a pending request
\* to settle: the answers of the upstream are not subject to fairness.
FairBuild ==
  /\ WF_vars(DashboardRoute(1, "pk_A"))
  /\ WF_vars(CallGetDashboardMetrics)
SpecBuildLive == InitDashboard /\ [][NextBuild]_vars /\ FairBuild

\* One call of getCampaigns against every pair of channel answers.
NextCampaigns ==
  \/ DashboardRoute(1, "pk_A")
  \/ CallGetCampaigns
  \/ \E c \in Range(Channels), b \in CampaignBodies : ChannelReturns(c, b)
  \/ \E c \in Range(Channels), r \in FewErrors : ChannelFails(c, r)
SpecCampaigns == Init /\ [][NextCampaigns]_vars

\* One request to the dashboard route with every Authorization header.
InitServed ==
  /\ InitService
  /\ InitTasks
  /\ InitAggregate
  /\ InitBuild
  /\ InitCampaigns
  /\ InitRoute
  /\ InitView
  /\ InitAuth
  /\ catalog \in {<<>>, <<MR, MP>>}
  /\ pages = Linked(<<Some(<<1>>)>>)
NextRoute ==
  \/ \E h \in Headers : RouteRequest(h)
  \/ ClientLookup
  \/ ClientLookupFails
  \/ \E slot \in Range(FanOut), o \in Outcomes : FanOutSettles(slot, o)
  \/ \E o \in Outcomes : CatalogLoaded(o)
  \/ \E slot \in Range(EventNames), o \in Outcomes : CountSettles(slot, o)
  \/ \E o \in Outcomes : DetailsCatalogLoaded(o)
  \/ \E o \in Outcomes : DetailSettles(o)
  \/ \E o \in Outcomes : RevenueSettles(o)
  \/ \E o \in Outcomes : RevenueEventsSettle(o)
SpecRoute == InitServed /\ [][NextRoute]_vars

\* Two callers on one service instance, each making one logical request
\* after the other.
NextSeries ==
  \/ DashboardRoute(1, "pk_A")
  \/ \E t \in PairTasks : CallMakeRequest(t, 1)
  \/ \E t \in PairTasks : CallAgain(t)
  \/ \E t \in PairTasks : RateLimitWake(t)
  \/ \E t \in PairTasks : RespondOk(t, OkData)
  \/ \E t \in PairTasks : Throttled(t, Response(429, PlainBody))
  \/ \E t \in PairTasks : BackoffWake(t)
  \/ \E t \in PairTasks : Fail(t, Response(429, PlainBody))
  \/ \E t \in PairTasks : AdvanceToTimer(t)
SpecSeries == Init /\ [][NextSeries]_vars

\* One build against a catalog at or beyond the cap of the detail loop.
\* The requests of the first fan-out succeed and the upstream fails at most
\* MaxDetailFailures detail requests, in every position.
InitDetails ==
  /\ InitService
  /\ InitTasks
  /\ InitAggregate
  /\ InitBuild
  /\ InitCampaigns
  /\ InitRoute
  /\ InitView
  /\ InitAuth
  /\ catalog \in LongCatalogs
  /\ pages = Linked(<<Some(<<1>>)>>)
DetailFailures ==
  Cardinality({i \in 1..Len(catalog) :
                 DetailSlot(i) \in DOMAIN outcome /\ outcome[DetailSlot(i)] = "fail"})
DetailFailsWithinBound == DetailFailures < MaxDetailFailures /\ DetailSettles("fail")
NextDetails ==
  \/ DashboardRoute(1, "pk_A")
  \/ CallGetDashboardMetrics
  \/ \E slot \in Range(FanOut) : FanOutSettles(slot, "ok")
  \/ \E o \in Outcomes : CatalogLoaded(o)
  \/ \E slot \in Range(EventNames), o \in Outcomes : CountSettles(slot, o)
  \/ \E o \in Outcomes : DetailsCatalogLoaded(o)
  \/ DetailSettles("ok")
  \/ DetailFailsWithinBound
  \/ \E o \in Outcomes : RevenueSettles(o)
  \/ \E o \in Outcomes : RevenueEventsSettle(o)
SpecDetails == InitDetails /\ [][NextDetails]_vars

\* The same build where every request is eventually answered and the
\* program takes every step it can take: the event loop runs a continuation
\* once the promise it awaits has settled.
SpecDetailsAnswered == InitDetails /\ [][NextDetails]_vars /\ WF_vars(NextDetails)

\* One Dashboard component from its mount to after its unmount, with every
\* answer to each of its requests.
NextView ==
  \/ Mount
  \/ TimerTick
  \/ RetryClick
  \/ \E data \in Snapshots : FetchSucceeds(data)
  \/ \E err \in LoadFailures : FetchFails(err)
  \/ Unmount
SpecView == Init /\ [][NextView]_vars

\* One AuthProvider over every stored session, with logins and logouts in
\* every order and every answer to each login.
InitSession ==
  /\ InitService
  /\ InitTasks
  /\ InitAggregate
  /\ InitBuild
  /\ InitCampaigns
  /\ InitRoute
  /\ InitView
  /\ auth \in StoredSessions
  /\ catalog = <<>>
  /\ pages = Linked(<<Some(<<1>>)>>)
NextAuth ==
  \/ AuthMount
  \/ Login
  \/ \E token \in SessionTokens, clientData \in ClientRecords : LoginSucceeds(token, clientData)
  \/ \E err \in LoginFailures : LoginFails(err)
  \/ Logout
SpecAuth == InitSession /\ [][NextAuth]_vars

\* ------------------------------------------------------------------------
\* Properties
\* ------------------------------------------------------------------------
Abs(x) == IF x < 0 THEN -x ELSE x
Last(q) == q[Len(q)]
FetchTask(t) == op[t] = "getAllEventsByMetricId"

\* C1: on every service instance, the gap between its two latest admissions
\* is at least minRequestInterval, and its N admissions so far took at least
\* (N - 1) * minRequestInterval from the first to the last.
C1_AdmissionGap ==
  \A s \in Services :
    admitted[s].count >= 2 =>
      /\ lastRequestTime[s] - admitted[s].prev >= minRequestInterval
      /\ lastRequestTime[s] - admitted[s].first
           >= (admitted[s].count - 1) * minRequestInterval

\* C2: the read of lastRequestTime and the write of the new admission time
\* are one critical section: at no time have two callers of the same
\* instance read lastRequestTime without having written their admission.
C2_CriticalSection ==
  \A s \in Services :
    Cardinality({t \in Tasks : pc[t] = "rateLimit" /\ svcOf[t] = s}) <= 1

\* C3: the limiter state is shared by all service instances of the process:
\* the latest admissions of two different instances are at least
\* minRequestInterval apart, and an instance that has admitted nothing yet
\* already holds the latest admission time of the process.
C3_ProcessWideLimiter ==
  \A s1 \in Services, s2 \in Services :
    (s1 # s2 /\ admitted[s1].count >= 1) =>
      /\ admitted[s2].count >= 1 =>
           Abs(lastRequestTime[s1] - lastRequestTime[s2]) >= minRequestInterval
      /\ (privateKey[s2] # None /\ admitted[s2].count = 0) =>
           lastRequestTime[s2] >= lastRequestTime[s1]

\* C4 as stated: one logical request makes at most 3 HTTP attempts.
C4_AtMostThreeAttempts ==
  \A t \in Tasks : attempts[t] <= 3

\* C4 amended: one logical request makes at most 4 HTTP attempts, the first
\* one and 3 retries; a request that fails throttled has made exactly 4.
C4_AtMostFourAttempts ==
  \A t \in Tasks :
    /\ attempts[t] <= 4
    /\ (pc[t] = "thrown" /\ lastResp[t].status = 429) => attempts[t] = 4

C4_Witness ==
  \E t \in Tasks : pc[t] = "thrown" /\ lastResp[t].status = 429 /\ attempts[t] = 4

\* What "the detail contains N second" means, stated on the text alone: a
\* non-empty run of digits, any white space, then the word in any casing.
SecondLetters == <<{"s", "S"}, {"e", "E"}, {"c", "C"}, {"o", "O"}, {"n", "N"}, {"d", "D"}>>
IsDigitRun(w) == Len(w) > 0 /\ \A i \in 1..Len(w) : w[i] \in Digits
IsSpaceRun(w) == \A i \in 1..Len(w) : w[i] \in Whitespace
IsSecond(w) == Len(w) = 6 /\ \A i \in 1..6 : w[i] \in SecondLetters[i]
Hints(d) ==
  {ParseInt(SubSeq(d, x[1], x[2])) :
     x \in {y \in (1..Len(d)) \X (1..Len(d)) \X (1..Len(d)) :
              /\ y[1] <= y[2] /\ y[2] <= y[3] /\ y[3] + 6 <= Len(d)
              /\ IsDigitRun(SubSeq(d, y[1], y[2]))
              /\ IsSpaceRun(SubSeq(d, y[2] + 1, y[3]))
              /\ IsSecond(SubSeq(d, y[3] + 1, y[3] + 6))}}
HintsOf(body) ==
  IF body.hasErrors /\ body.errors # <<>> /\ body.errors[1].detail # None
  THEN Hints(body.errors[1].detail[1])
  ELSE {}

\* C5: while a task sleeps before a retry, the delay is N * 1000 ms for an
\* N that errors[0].detail names as "N second", and 1000 ms when the body
\* names none.
C5_RetryDelay ==
  \A t \in Tasks :
    pc[t] = "backoff" =>
      /\ lastResp[t].status = 429
      /\ timer[t] <= now + waitTime[t]
      /\ IF HintsOf(lastResp[t].body) = {}
         THEN waitTime[t] = 1000
         ELSE \E n \in HintsOf(lastResp[t].body) : waitTime[t] = n * 1000

C5_Witness ==
  \E t \in Tasks :
    /\ pc[t] = "backoff"
    /\ 2 \in HintsOf(lastResp[t].body)
    /\ waitTime[t] = 2000

\* The class the taxonomy gives a failed response.
Class(resp) ==
  IF resp.status = 429 THEN "ThrottledError"
  ELSE IF resp.status = NoResponse THEN "TransportError"
  ELSE "ApiError"

\* C6: failures of different classes are told apart by the value thrown:
\* two requests that failed in different classes raised different values.
C6_FailuresDistinguishable ==
  \A t1 \in Tasks, t2 \in Tasks :
    (pc[t1] = "thrown" /\ pc[t2] = "thrown"
       /\ Class(lastResp[t1]) # Class(lastResp[t2]))
      => thrown[t1] # thrown[t2]

\* C7: once a task has received a failure that is not a 429 (another status,
\* or no response at all) it has failed, without a further attempt and
\* without a sleep; if it was never throttled it made exactly one attempt.
C7_RetryOnlyWhenThrottled ==
  \A t \in Tasks :
    (lastResp[t] # NotYet /\ lastResp[t].status # 429) =>
      /\ pc[t] = "thrown"
      /\ InFlight(t) = {}
      /\ attempts[t] = retryCount[t] + 1
      /\ retryCount[t] = 0 => attempts[t] = 1

C7_Witness ==
  \E t \in Tasks :
    pc[t] = "thrown" /\ lastResp[t].status = NoResponse /\ attempts[t] = 1

\* The items of the pages k.. of the upstream, in page order.
RECURSIVE ItemsFrom(_)
ItemsFrom(k) ==
  IF k > Len(pages) THEN <<>>
  ELSE (IF pages[k].data = None THEN <<>> ELSE pages[k].data[1]) \o ItemsFrom(k + 1)

\* C8: a fetch whose every page was delivered returns exactly the items of
\* all pages, concatenated in page order.
C8_ConcatenationInOrder ==
  \A t \in Tasks :
    (FetchTask(t) /\ pc[t] = "returned" /\ caught[t] = NoError) =>
      returned[t] = Some([data |-> ItemsFrom(1)])

C8_Witness ==
  \E t \in Tasks :
    /\ FetchTask(t) /\ pc[t] = "returned" /\ caught[t] = NoError
    /\ Len(pages) = 3
    /\ Len(returned[t][1].data) = 250

\* C9: once the page without a cursor has been delivered the fetch has
\* returned and the request for that page is the last one it issued; a
\* fetch that completes was delivered every page once, in order.
C9_StopsAtLastPage ==
  \A t \in Tasks :
    FetchTask(t) =>
      /\ (served[t] # <<>> /\ pages[Last(served[t])].next = None) =>
           /\ pc[t] = "returned"
           /\ InFlight(t) = {}
           /\ PageOf(request[t]) = Last(served[t])
      /\ (pc[t] = "returned" /\ caught[t] = NoError) =>
           served[t] = [k \in 1..Len(pages) |-> k]

C9_Witness ==
  \E t \in Tasks :
    /\ FetchTask(t) /\ pc[t] = "returned" /\ caught[t] = NoError
    /\ Len(pages) >= 2
    /\ Len(served[t]) = Len(pages)

\* C10: a fetch has at most one request in flight, and it is the first
\* request while no page has been delivered, and afterwards the request for
\* the cursor of the page delivered last.
C10_OnePageInFlight ==
  \A t \in Tasks :
    FetchTask(t) =>
      /\ Cardinality(InFlight(t)) <= 1
      /\ \A m \in InFlight(t) :
           IF served[t] = <<>>
           THEN m.req = Req(EventsEndpoint, 0, TRUE)
           ELSE /\ pages[Last(served[t])].next # None
                /\ RequestUrl(m.req) = pages[Last(served[t])].next[1]
                /\ ~m.req.first

C10_Witness ==
  \E t \in Tasks :
    FetchTask(t) /\ InFlight(t) # {} /\ Len(served[t]) >= 2

\* The aggregate query or revenue calculation has returned after an answer
\* of the upstream (ok) or after a failure of makeRequest (~ok).
QueryDone(ok) ==
  /\ aggCall.method = "queryMetricAggregates"
  /\ aggPc = "returned"
  /\ Last(aggResponse).ok = ok
RevenueDone ==
  /\ aggCall.method = "calculateRevenueByMetricId"
  /\ aggPc = "returned"
  /\ Len(aggResponse) = 1

\* C13: every request to the aggregate endpoint that measures sum_value
\* carries a filter with a lower and an upper bound on datetime.
C13_RevenueQueriesFiltered ==
  \A i \in 1..Len(aggRequest) :
    (/\ aggRequest[i].endpoint = AggregatesEndpoint
     /\ \E k \in 1..Len(aggRequest[i].body.measurements) :
          aggRequest[i].body.measurements[k] = "sum_value")
      => /\ IsSome(aggRequest[i].body.filter)
         /\ \E k \in 1..Len(Get(aggRequest[i].body.filter)) :
              /\ Get(aggRequest[i].body.filter)[k].op = "greater-or-equal"
              /\ Get(aggRequest[i].body.filter)[k].field = "datetime"
         /\ \E k \in 1..Len(Get(aggRequest[i].body.filter)) :
              /\ Get(aggRequest[i].body.filter)[k].op = "less-than"
              /\ Get(aggRequest[i].body.filter)[k].field = "datetime"

\* The sum of the values of a function over the index set S.
RECURSIVE SumOf(_, _)
SumOf(f, S) ==
  IF S = {} THEN 0
  ELSE LET x == CHOOSE y \in S : TRUE IN f[x] + SumOf(f, S \ {x})

\* The scalar of one measurement value: the sum of the array (null counting
\* as nothing) for an array, the value itself otherwise.
ScalarOf(v) ==
  IF v.isArray
  THEN SumOf([i \in DOMAIN v.items |-> IF v.items[i] = None THEN 0 ELSE v.items[i][1]],
             DOMAIN v.items)
  ELSE v.items[1][1]
\* The scalars a group can contribute: that of one of its measurements, or
\* 0 when it carries none.
Contributions(group) ==
  LET m == group.measurements[1]
      present == {v \in {m.unique, m.count, m.sum_value} : v # None}
  IN  IF present = {} THEN {0} ELSE {ScalarOf(v[1]) : v \in present}
RevenueScalar(group) ==
  IF group.measurements[1].sum_value = None THEN 0
  ELSE ScalarOf(group.measurements[1].sum_value[1])
\* The totals the groups from group i on can add up to.
RECURSIVE Totals(_, _)
Totals(groups, i) ==
  IF i > Len(groups) THEN {0}
  ELSE {a + b : a \in Contributions(groups[i]), b \in Totals(groups, i + 1)}
AnsweredGroups == IF Last(aggResponse).data.data = None THEN <<>> ELSE Last(aggResponse).data.data[1]
WellFormed(groups) == \A i \in 1..Len(groups) : groups[i].measurements # None

C15_TotalEqualsGroupedSum ==
  (/\ QueryDone(TRUE)
   /\ aggCall.options.by # None
   /\ aggCall.options.by[1] # <<>>)
    => aggResult[1].total = SumOf(aggResult[1].grouped, DOMAIN aggResult[1].grouped)

\* C16: when makeRequest failed, queryMetricAggregates raises that failure
\* to its caller and returns no result.
C16_FailureSurfaced ==
  QueryDone(FALSE) =>
    /\ aggThrown = Last(aggResponse).error
    /\ aggResult = None

\* ---- getDashboardMetrics ----
CatalogResolved == "allMetrics" \in DOMAIN outcome
BuildDone == bPc = "returned"
SearchName(n) ==
  CASE n = "placedOrder" -> PlacedOrderSearch
    [] n = "viewedProduct" -> ViewedProductSearch
    [] n = "addedToCart" -> AddedToCartSearch
    [] n = "activeOnSite" -> ActiveOnSiteSearch
ExactMatch(m, n) == LowerCase(MetricName(m)) = SearchName(n)
Contains(m, n) == Includes(LowerCase(MetricName(m)), SearchName(n))
\* The entry the resolution rule names: the first exact match, and the first
\* containing entry when there is no exact match.
RuleEntry(metrics, n) ==
  IF \E i \in 1..Len(metrics) : ExactMatch(metrics[i], n)
  THEN Find(metrics, LAMBDA m : ExactMatch(m, n))
  ELSE Find(metrics, LAMBDA m : Contains(m, n))

\* C11: for each of the four names the snapshot resolves, the resolved id is
\* the id of the entry whose name equals the searched name (ignoring case)
\* when there is one, even behind an entry that only contains the name, and
\* otherwise the id of the first entry containing the name.
C11_ExactMatchWins ==
  CatalogResolved =>
    \A i \in 1..Len(EventNames) :
      metricIds[EventNames[i]] = IdOrNull(RuleEntry(allMetrics, EventNames[i]))

\* C12: a name no catalog entry matches resolves to null; no count query is
\* started for it, its counter in the snapshot is 0, no revenue request is
\* started without the placed-order metric, and the build still returns a
\* snapshot.
NotFound(n) == ~\E i \in 1..Len(allMetrics) : Contains(allMetrics[i], n)
C12_NotFoundIsZero ==
  CatalogResolved =>
    \A i \in 1..Len(EventNames) :
      LET n == EventNames[i] IN
      NotFound(n) =>
        /\ metricIds[n] = None
        /\ n \notin Range(issued)
        /\ n = "placedOrder" => "revenue" \notin Range(issued)
        /\ bPc \in {"counts", "detailsCatalog", "detail", "revenue", "revenueEvents", "returned"}
        /\ BuildDone =>
             /\ IsSome(snapshot)
             /\ Get(snapshot).eventMetrics[n] = 0
             /\ n = "placedOrder" => Get(snapshot).revenueMetrics.totalRevenue = 0
C12_Witness ==
  /\ BuildDone
  /\ outcome["allMetrics"] = "ok"
  /\ NotFound("placedOrder")
  /\ ~NotFound("viewedProduct")
  /\ outcome["viewedProduct"] = "ok"
  /\ Get(snapshot).eventMetrics.viewedProduct > 0
  /\ Get(snapshot).eventMetrics.placedOrder = 0

\* C17: whatever requests of the build fail, the build returns a snapshot in
\* which every part is a function of its own requests alone: the fetched value
\* when they succeeded, and for a failed collection the empty list, for a
\* failed count 0, for a failed detail no entry, for a failed revenue
\* calculation the event-based total or 0.  A failed flows request gives
\* an empty flows list and a flow count of 0.
Ok(slot) == slot \in DOMAIN outcome /\ outcome[slot] = "ok"
ListOr(slot, list) == IF Ok(slot) THEN list.data ELSE <<>>
ExpectedCount(n) ==
  IF IsSome(metricIds[n]) /\ Ok(n) THEN UpstreamCount(Get(metricIds[n])) ELSE 0
FetchedCatalog == IF Ok("metricsWithDetails") THEN catalog ELSE <<>>
RECURSIVE ExpectedDetails(_, _)
ExpectedDetails(metrics, i) ==
  IF i > Len(metrics) THEN <<>>
  ELSE (IF Ok(DetailSlot(i)) THEN <<DetailOf(metrics[i].id)>> ELSE <<>>)
         \o ExpectedDetails(metrics, i + 1)
ExpectedRevenue ==
  IF ~IsSome(metricIds.placedOrder) THEN 0
  ELSE IF Ok("revenue") THEN 250
  ELSE IF Ok("revenueEvents") THEN 42
  ELSE 0
CatalogSlots == {"metrics", "allMetrics", "metricsWithDetails"}
Failed(slot) == slot \in DOMAIN outcome /\ outcome[slot] = "fail"
C18_CatalogFailurePropagates ==
  (\E slot \in CatalogSlots : Failed(slot)) => (~BuildDone /\ snapshot = None)

\* C19: one build loads the metric catalog once, and the catalog field of
\* the snapshot, the name resolution and the detailed metrics all come from
\* that load.
CatalogLoads == {i \in 1..Len(issued) : issued[i] \in CatalogSlots}
C19_CatalogLoadedOnce ==
  /\ Cardinality(CatalogLoads) <= 1
  /\ BuildDone =>
       /\ Get(snapshot).metrics = Some([data |-> allMetrics])
       /\ Get(Get(snapshot).metricsWithDetails).metrics = allMetrics

\* C20: in the snapshot a failed request leaves the default of its kind: the
\* empty list for lists, flows and campaigns, 0 for an event count and for
\* the revenue total, and null for the account.
C20_DefaultsByKind ==
  BuildDone =>
    LET snap == Get(snapshot) IN
    /\ Failed("lists") => snap.lists = Some(EmptyList)
    /\ Failed("flows") => snap.flows = Some(EmptyList)
    /\ (Failed("campaignsEmail") /\ Failed("campaignsSms")) => snap.campaigns = Some(EmptyList)
    /\ \A i \in 1..Len(EventNames) :
         Failed(EventNames[i]) => snap.eventMetrics[EventNames[i]] = 0
    /\ (Failed("revenue") /\ Failed("revenueEvents")) => snap.revenueMetrics.totalRevenue = 0
    /\ Failed("account") => snap.account = None

\* C21: a build that has started eventually returns a snapshot, also when
\* a request it waits for is never answered.
C21_BuildEventuallyReturns == (bPc = "fanout") ~> BuildDone

\* ---- getCampaigns ----
\* The campaigns a channel contributes: those of its answer, none when its
\* request failed or its answer carries no list.
Contributed(channel) ==
  LET a == campAnswer[channel] IN
  IF a.ok /\ a.data.data # None THEN a.data.data[1] ELSE <<>>

\* C22: getCampaigns hands exactly one request per channel to makeRequest,
\* the email one and the sms one, and returns the campaigns of the email
\* answer followed by those of the sms answer, a failed channel contributing
\* nothing; it returns a list whatever the two requests did.
C22_UnionOfChannels ==
  /\ campPc \in {"idle", "awaiting", "returned"}
  /\ campPc # "idle" =>
       /\ Len(campIssued) = 2
       /\ campIssued[1].filter[2] = "email"
       /\ campIssued[2].filter[2] = "sms"
       /\ campIssued[1].endpoint = CampaignsEndpoint
       /\ campIssued[2].endpoint = CampaignsEndpoint
  /\ DOMAIN campAnswer = {"email", "sms"} =>
       /\ campPc = "returned"
       /\ campResult = Some([data |-> Contributed("email") \o Contributed("sms")])
C22_Witness ==
  /\ campPc = "returned"
  /\ ~campAnswer["email"].ok
  /\ campAnswer["sms"].ok
  /\ campResult = Some([data |-> <<"c2", "c1">>])

\* ---- GET /api/dashboard/metrics ----
\* The request carries a token: a second word in its Authorization header.
HasToken ==
  route.header # None /\ Len(route.header[1]) >= 2 /\ "signed" \in DOMAIN route.header[1][2]
Presented == route.header[1][2]
Verifies == HasToken /\ Presented.signed /\ ~Presented.expired
KnownClient == Verifies /\ Presented.clientId # None /\ Presented.clientId[1] \in DOMAIN StoredKeys
Status(n) == route.res # None /\ route.res[1].status = n

\* C23: the build makes upstream calls and the route answers with a snapshot
\* only for a request whose token verifies and names a client of the table,
\* and the service then holds the stored key of that client; without a
\* token the answer is 401, with a token that does not verify 403, with a
\* token naming no client of the table 404 (500 when the lookup failed).
C23_AuthenticatedOnly ==
  /\ (issued # <<>> \/ privateKey[1] # None \/ Status(200)) =>
       /\ KnownClient
       /\ privateKey[1] = Some(StoredKeys[Presented.clientId[1]])
  /\ Status(200) => (BuildDone /\ route.res[1].body = Get(snapshot))
  /\ route.pc = "responded" =>
       /\ ~HasToken => Status(401)
       /\ (HasToken /\ ~Verifies) => Status(403)
       /\ (Verifies /\ ~KnownClient) => (Status(404) \/ Status(500))
       /\ KnownClient => (Status(200) \/ Status(500))
  /\ BuildDone => Status(200)
C23_Witness ==
  /\ Status(200)
  /\ Presented.clientId = Some(2)
  /\ privateKey[1] = Some("pk_B")
  /\ Len(issued) > 6

\* ---- retry sequences ----
\* Task t issues an HTTP attempt in this step.
Issues(t) == InFlight(t)' # {} /\ InFlight(t)' # InFlight(t)
OrderedAttempts(t) ==
  /\ Issues(t) =>
       /\ InFlight(t) = {}
       /\ pc[t] \in {"idle", "backoff", "rateLimit"}
       /\ attempts'[t] = retryCount'[t] + 1
       /\ pc[t] # "idle" => attempts'[t] = attempts[t] + 1
  /\ (pc[t] = "backoff" /\ pc'[t] # "backoff") =>
       /\ now >= timer[t]
       /\ retryCount'[t] = retryCount[t] + 1
  /\ (pc[t] # "backoff" /\ pc'[t] = "backoff") =>
       /\ pc[t] = "http"
       /\ InFlight(t)' = {}
       /\ timer'[t] = now + waitTime'[t]
       /\ waitTime'[t] > 0
OneAttemptInFlight(t) ==
  /\ Cardinality(InFlight(t)) <= 1
  /\ InFlight(t) # {} <=> pc[t] = "http"

\* C24: a logical request has at most one HTTP attempt in flight; an
\* attempt is issued only when the previous one has been answered, the retry
\* after a throttled attempt only when the backoff that started at the
\* answer has fully elapsed, and the attempts are numbered in order.
C24_AttemptsInSequence ==
  /\ [](\A t \in PairTasks : OneAttemptInFlight(t))
  /\ [][\A t \in PairTasks : OrderedAttempts(t)]_vars
C24_Witness ==
  \E t \in PairTasks :
    /\ pc[t] = "http"
    /\ attempts[t] = 3
    /\ retryCount[t] = 2
    /\ now >= StartTime + 2 * DefaultRetryMs

\* A call of makeRequest by task t starts in this step.
Starts(t) == pc[t] \in {"idle", "returned", "thrown"} /\ pc'[t] \in {"rateLimit", "http"}
ScopedRetryState(t) ==
  /\ Starts(t) => (retryCount'[t] = 0 /\ attempts'[t] <= 1)
  /\ retryCount'[t] # retryCount[t] =>
       \/ Starts(t)
       \/ pc[t] = "backoff" /\ retryCount'[t] = retryCount[t] + 1
  /\ (retryCount'[t] # retryCount[t] \/ attempts'[t] # attempts[t]) =>
       \A u \in PairTasks \ {t} :
         retryCount'[u] = retryCount[u] /\ attempts'[u] = attempts[u]
OwnBudget(t) ==
  /\ retryCount[t] <= maxRetries
  /\ pc[t] = "http" => attempts[t] = retryCount[t] + 1
  /\ pc[t] = "thrown" => (retryCount[t] = maxRetries /\ attempts[t] = maxRetries + 1)

\* C25: every call of makeRequest starts with retry counter 0, whatever the
\* caller's previous call ended with; the counter of a call changes only by
\* its own retries, never together with that of another call; and each
\* call has its full budget: a throttled call fails after maxRetries retries
\* of its own.
C25_RetryStatePerRequest ==
  /\ [](\A t \in PairTasks : OwnBudget(t))
  /\ [][\A t \in PairTasks : ScopedRetryState(t)]_vars
C25_Witness ==
  /\ pc[2] = "idle"
  /\ pc[1] = "http"
  /\ retryCount[1] = 0
  /\ attempts[1] = 1
  /\ admitted[1].count = maxRetries + 2
  /\ now >= StartTime + maxRetries * DefaultRetryMs

\* ---- error messages ----
ErrorPrefix == <<"Klaviyo API Error: ">>
\* The first entry of the errors array of a failed response, if any.
FirstError(resp) ==
  IF resp.status # NoResponse /\ resp.body.hasErrors /\ resp.body.errors # <<>>
  THEN <<resp.body.errors[1]>> ELSE <<>>

\* C26: a request that failed raised an Error whose message is the detail
\* of the first entry of the errors array when it has one, else its title
\* when it has one, and else a generic text, never a missing value; no
\* envelope makes the request fail with another kind of exception.
C26_MessageDefined ==
  \A t \in Tasks :
    pc[t] = "thrown" =>
      /\ thrown[t].name = "Error"
      /\ LET first == FirstError(lastResp[t]) IN
         IF first # <<>> /\ first[1].detail \notin {<<>>, <<<<>>>>}
         THEN thrown[t].message = ErrorPrefix \o first[1].detail[1]
         ELSE IF first # <<>> /\ first[1].title \notin {<<>>, <<<<>>>>}
         THEN thrown[t].message = ErrorPrefix \o first[1].title[1]
         ELSE /\ Len(thrown[t].message) > 1
              /\ thrown[t].message # ErrorPrefix \o <<"undefined">>

\* ---- cursors ----
\* The path of a cursor without its leading "/api", removed once.
WithoutApiRoot(p) == IF p # <<>> /\ p[1] = "api" THEN SubSeq(p, 2, Len(p)) ELSE p

\* C27: the first request of a fetch is the one to /events/ with the
\* initial parameters; every later request carries no initial parameters
\* and has exactly the path, less one leading "/api", and the query of the
\* cursor of the page delivered last.
C27_CursorVerbatim ==
  \A t \in Tasks :
    (FetchTask(t) /\ pc[t] \in {"rateLimit", "http", "backoff"}) =>
      IF served[t] = <<>>
      THEN request[t] = [path |-> EventsEndpoint, search |-> 0, first |-> TRUE]
      ELSE LET cursor == pages[Last(served[t])].next[1] IN
           /\ request[t].path = WithoutApiRoot(cursor.pathname)
           /\ request[t].search = cursor.search
           /\ request[t].first = FALSE
C27_Witness ==
  \E t \in Tasks :
    /\ FetchTask(t) /\ pc[t] = "http" /\ served[t] = <<1>>
    /\ pages[1].next[1].pathname = <<"api", "api", "events">>
    /\ request[t].path = <<"api", "events">>
    /\ request[t].search = 2

\* C28: a fetch issues finitely many page requests whatever the upstream
\* answers: it is delivered no more pages than the upstream holds.
C28_FinitelyManyPages ==
  \A t \in Tasks : FetchTask(t) => Len(served[t]) <= Len(pages)

\* ---- grouped results ----
GroupingRequested == aggCall.options.by # None /\ Len(aggCall.options.by[1]) > 0
\* The key of a group: the first value present in its first dimension object,
\* in the order attributed-message, message, flow, campaign, and "unknown"
\* when it has none.
KeyOf(group) ==
  LET present ==
        IF group.dimensions = None \/ group.dimensions[1] = <<>> THEN <<>>
        ELSE LET d == group.dimensions[1][1] IN
             d.attributed_message \o d.message \o d.flow \o d.campaign
  IN  IF present = <<>> THEN "unknown" ELSE present[1]
\* The scalar a group added to the total.
ScalarAdded(group) == GroupValue(group.measurements, MeasurementKey(group.measurements))
KeysOf(groups) == {KeyOf(groups[i]) : i \in 1..Len(groups)}
SumUnder(groups, k) ==
  SumOf([i \in 1..Len(groups) |-> ScalarAdded(groups[i])],
        {i \in 1..Len(groups) : KeyOf(groups[i]) = k})

\* C29: when grouping was requested, grouped maps the key of every result
\* group to the sum of the scalars of the groups with that key.
C29_GroupedByFirstDimension ==
  (QueryDone(TRUE) /\ GroupingRequested) =>
    aggResult[1].grouped = [k \in KeysOf(AnsweredGroups) |-> SumUnder(AnsweredGroups, k)]

\* ---- request body ----
Queried == aggCall.method = "queryMetricAggregates" /\ aggPc # "idle"
MeasuresRevenue(ms) == \E i \in 1..Len(ms) : ms[i] = "sum_value"

\* C30: a query posts exactly one body; it always carries the measurements,
\* the metric id and the timezone of the call, the filter exactly when the
\* filter list is non-empty or sum_value is measured, the interval exactly
\* when one was given and by exactly when a non-empty list was given.
C30_RequestBodyAttributes ==
  Queried =>
    /\ Len(aggRequest) = 1
    /\ aggRequest[1].method = "POST"
    /\ aggRequest[1].endpoint = AggregatesEndpoint
    /\ LET body == aggRequest[1].body
           o == aggCall.options
       IN  /\ body.measurements = o.measurements
           /\ body.metric_id = aggCall.metricId
           /\ body.timezone = o.timezone
           /\ body.filter # None <=> (o.filters # <<>> \/ MeasuresRevenue(o.measurements))
           /\ body.filter # None => body.filter[1] = o.filters
           /\ body.interval = o.interval
           /\ body.by # None <=> (o.by # None /\ o.by[1] # <<>>)
           /\ body.by # None => body.by = o.by

\* C31: the snapshot a build returns is a function of the catalog and of how
\* each of its requests ended, read by position: in whatever order the
\* requests of a concurrent phase settle, the same answers give the same
\* snapshot.
ExpectedDetailed ==
  Some([metrics |-> FetchedCatalog,
        details |-> ExpectedDetails(MetricsToFetch(FetchedCatalog), 1),
        total |-> IF FetchedCatalog = <<>> THEN None ELSE Some(Len(FetchedCatalog))])
ResolvedIds == [cat \in Catalogs \cup LongCatalogs |-> ResolveMetricIds(cat)]
SnapshotOf(out, cat) ==
  LET ids == ResolvedIds[IF out["allMetrics"] = "ok" THEN cat ELSE <<>>]
      joined == (IF out["campaignsEmail"] = "ok" THEN EmailCampaigns.data ELSE <<>>)
                  \o (IF out["campaignsSms"] = "ok" THEN SmsCampaigns.data ELSE <<>>)
  IN
  [MakeSnapshot(out, cat,
    [n \in Range(EventNames) |->
       IF IsSome(ids[n]) /\ n \in DOMAIN out /\ out[n] = "ok"
       THEN UpstreamCount(Get(ids[n])) ELSE 0],
    ExpectedDetailed,
    [totalRevenue |-> IF ~IsSome(ids.placedOrder) THEN 0 ELSE ExpectedRevenue,
     revenueByEmail |-> IF ~IsSome(ids.placedOrder) THEN 0 ELSE ExpectedRevenue,
     revenueOverTime |-> <<>>])
     EXCEPT !.campaigns = Some([data |-> joined]), !.campaignCount = Len(joined)]
C31_OrderIndependent == BuildDone => snapshot = Some(SnapshotOf(outcome, catalog))
C31_Witness ==
  /\ BuildDone
  /\ firstSettled.fanout = "campaignsSms"
  /\ firstSettled.counts # ""
  /\ firstSettled.counts # issued[Len(FanOut) + 2]
  /\ Ok("campaignsEmail") /\ Ok("campaignsSms")
  /\ Get(Get(snapshot).campaigns).data = EmailCampaigns.data \o SmsCampaigns.data
  /\ Len(EmailCampaigns.data) > 0 /\ Len(SmsCampaigns.data) > 0
  /\ snapshot = Some(SnapshotOf(outcome, catalog))

\* C37: the phases of a build are ordered.  An event-count query is issued
\* only when every request of the first fan-out has settled; a request of
\* getAllMetricsWithDetails only when every event-count query has settled;
\* the revenue query only when getAllMetricsWithDetails has returned, all
\* its detail requests settled, and only when the placed-order metric was
\* resolved.
IssuedSlots == Range(issued)
Settled(slot) == slot \in DOMAIN outcome
CountSlots == IssuedSlots \cap Range(EventNames)
DetailSlots == IssuedSlots \ (Range(FanOut) \cup Range(EventNames)
                                \cup {"allMetrics", "revenue", "revenueEvents"})
C37_PhasesInOrder ==
  /\ CountSlots # {} => \A slot \in Range(FanOut) : Settled(slot)
  /\ DetailSlots # {} => \A slot \in CountSlots : Settled(slot)
  /\ "revenue" \in IssuedSlots =>
       /\ \A slot \in DetailSlots : Settled(slot)
       /\ IsSome(metricsWithDetails)
       /\ IsSome(metricIds.placedOrder)
C37_Witness ==
  /\ BuildDone
  /\ Cardinality(CountSlots) >= 1
  /\ Cardinality(DetailSlots) >= 3
  /\ "revenue" \in IssuedSlots
  /\ IsSome(metricIds.placedOrder)

\* C36: getAllMetricsWithDetails issues at most DetailCap detail requests,
\* for the first DetailCap entries of the catalog in catalog order and one at
\* a time; a failed detail request is skipped and the later ones are still
\* issued; the details returned are the answers of the successful requests,
\* in catalog order.
Min(a, b) == IF a < b THEN a ELSE b
DetailRequests == {i \in 1..Len(catalog) : DetailSlot(i) \in IssuedSlots}
PositionOf(slot) == CHOOSE k \in 1..Len(issued) : issued[k] = slot
RECURSIVE SuccessfulDetails(_, _)
SuccessfulDetails(i, n) ==
  IF i > n THEN <<>>
  ELSE (IF outcome[DetailSlot(i)] = "ok" THEN <<DetailOf(catalog[i].id)>> ELSE <<>>)
         \o SuccessfulDetails(i + 1, n)
C36_DetailsCappedInOrder ==
  /\ DetailRequests \subseteq 1..Min(Len(catalog), DetailCap)
  /\ \A i \in DetailRequests : i > 1 =>
       /\ i - 1 \in DetailRequests
       /\ PositionOf(DetailSlot(i - 1)) < PositionOf(DetailSlot(i))
       /\ Settled(DetailSlot(i - 1))
  /\ Cardinality({i \in DetailRequests : DetailSlot(i) \in pendingReq}) <= 1
  /\ (IsSome(metricsWithDetails) /\ Ok("metricsWithDetails")) =>
       /\ DetailRequests = 1..Min(Len(catalog), DetailCap)
       /\ Get(metricsWithDetails).details
            = SuccessfulDetails(1, Min(Len(catalog), DetailCap))
C36_Witness ==
  /\ BuildDone
  /\ Len(catalog) > DetailCap
  /\ Cardinality(DetailRequests) = DetailCap
  /\ outcome[DetailSlot(2)] = "fail"
  /\ Len(Get(metricsWithDetails).details) = DetailCap - 1
  /\ Get(metricsWithDetails).details[1] = DetailOf(catalog[1].id)
  /\ Get(metricsWithDetails).details[2] = DetailOf(catalog[3].id)
  /\ Get(metricsWithDetails).details[DetailCap - 1] = DetailOf(catalog[DetailCap].id)

\* C32: every HTTP attempt of makeRequest, a retry after a 429 included, has
\* its own admission by the rate limiter: an instance has admitted as often
\* as its callers have handed requests to the network, a request is in
\* flight only for a task that was admitted for it, and the retry after a
\* backoff is admitted again.
RECURSIVE AttemptsOf(_)
AttemptsOf(S) ==
  IF S = {} THEN 0
  ELSE LET t == CHOOSE u \in S : TRUE IN attempts[t] + AttemptsOf(S \ {t})
CallersOf(s) == {t \in Tasks : pc[t] # "idle" /\ svcOf[t] = s}
C32_AdmissionPerAttempt ==
  /\ \A s \in Services : admitted[s].count = AttemptsOf(CallersOf(s))
  /\ \A t \in Tasks :
       /\ InFlight(t) # {} => pc[t] = "http"
       /\ pc[t] = "http" => attempts[t] = retryCount[t] + 1
C32_Witness ==
  /\ pc[1] = "http" /\ retryCount[1] = 2 /\ attempts[1] = 3
  /\ attempts[2] = 1
  /\ svcOf[1] = 1 /\ svcOf[2] = 1
  /\ admitted[1].count = 4

\* C33: while an instance has a single caller, whose calls therefore follow
\* one another, each admission is at least minRequestInterval after the
\* admission before it, and lastRequestTime never decreases.
SingleCaller(s) == Cardinality(CallersOf(s)) <= 1
AdmitsNow(s) == admitted'[s].count = admitted[s].count + 1
C33_SequentialSpacing ==
  [][\A s \in Services :
       SingleCaller(s) =>
         /\ lastRequestTime'[s] >= lastRequestTime[s]
         /\ (AdmitsNow(s) /\ admitted[s].count >= 1) =>
              lastRequestTime'[s] - lastRequestTime[s] >= minRequestInterval]_vars
C33_Witness ==
  /\ SingleCaller(1)
  /\ admitted[1].count >= 3
  /\ Len(served[1]) >= 2
  /\ lastRequestTime[1] - admitted[1].prev = minRequestInterval

\* C34: a paginated fetch never raises and never returns a partial result.
\* When the request of any page fails (retries used up), the fetch returns
\* the empty list whatever it had collected; it returns a non-empty list
\* only when no request failed and every page from the first to the one
\* without a cursor was delivered.
FetchFailed(t) == pc[t] = "returned" /\ caught[t] # NoError
C34_NeverPartial ==
  \A t \in Tasks :
    FetchTask(t) =>
      /\ pc[t] # "thrown" /\ thrown[t] = NoError
      /\ FetchFailed(t) => returned[t] = Some([data |-> <<>>])
      /\ (pc[t] = "returned" /\ Get(returned[t]).data # <<>>) =>
           /\ caught[t] = NoError
           /\ served[t] # <<>>
           /\ served[t][1] = 1
           /\ pages[Last(served[t])].next = None
           /\ \A i \in 1..(Len(served[t]) - 1) :
                /\ IsSome(pages[served[t][i]].next)
                /\ PageOf(CursorPath(Get(pages[served[t][i]].next))) = served[t][i + 1]
C34_Witness ==
  \E t \in Tasks :
    /\ FetchTask(t) /\ FetchFailed(t)
    /\ Len(served[t]) = 2
    /\ Len(allEvents[t]) >= 2
    /\ Len(pages) = 3
    /\ returned[t] = Some([data |-> <<>>])

\* C35: calculateRevenueByMetricId never raises.  The events request is
\* issued only after the aggregate request failed, it is a single request
\* for the first page of at most PageSize events of the metric, and the
\* value returned says in its method field which path produced it: the
\* aggregate answer, or after its failure the sum over the events delivered,
\* or 0 when the events request failed too.
RevenueCall == aggCall.method = "calculateRevenueByMetricId"
RECURSIVE SumOfValues(_)
SumOfValues(events) ==
  IF events = <<>> THEN 0
  ELSE (IF events[1] = None THEN 0 ELSE events[1][1]) + SumOfValues(Tail(events))
C35_RevenueFallsBack ==
  RevenueCall =>
    /\ aggThrown = NoError
    /\ Len(aggRequest) <= 2
    /\ Len(aggRequest) = 2 =>
         /\ ~aggResponse[1].ok
         /\ aggRequest[2].endpoint = EventsEndpoint
         /\ aggRequest[2].method = "GET"
         /\ aggRequest[2].body = [filterMetric |-> aggCall.metricId, pageSize |-> 100]
    /\ (aggResponse # <<>> /\ ~aggResponse[1].ok) => Len(aggRequest) = 2
    /\ Len(aggResponse) = Len(aggRequest) => aggPc = "returned"
    /\ aggPc = "returned" =>
         /\ IsSome(aggResult)
         /\ Get(aggResult).method
              = (IF aggResponse[1].ok THEN "metric-aggregates" ELSE "events")
         /\ Len(aggResponse) = (IF aggResponse[1].ok THEN 1 ELSE 2)
         /\ (Len(aggResponse) = 2 /\ ~aggResponse[2].ok) => Get(aggResult).totalRevenue = 0
         /\ (Len(aggResponse) = 2 /\ aggResponse[2].ok) =>
              Get(aggResult).totalRevenue
                = (IF aggResponse[2].data.data = None THEN 0
                   ELSE SumOfValues(Get(aggResponse[2].data.data)))
C35_Witness ==
  /\ RevenueCall
  /\ aggPc = "returned"
  /\ Len(aggResponse) = 2
  /\ ~aggResponse[1].ok /\ aggResponse[2].ok
  /\ Get(aggResult).method = "events"
  /\ Get(aggResult).totalRevenue = 7
  /\ Get(aggResult).eventCount = 4

\* C38: when every request of a build is eventually answered the build
\* eventually returns, and the logical requests it issues are bounded by a
\* constant that depends on the cap of the detail loop alone; with at most
\* maxRetries + 1 attempts per logical request that bounds its HTTP attempts.
RequestBound == Len(FanOut) + 2 + Len(EventNames) + DetailCap + 2
AttemptBound == RequestBound * (maxRetries + 1)
ResolvedNames == {n \in Range(EventNames) : IsSome(metricIds[n])}
MountStep == view.mounted = "no" /\ view'.mounted = "yes"
TickStep == view'.ticks = view.ticks + 1
FailStep == view'.failures = view.failures + 1 /\ view.mounted = "yes"
C39_RefreshWhileMounted ==
  /\ [](view.mounted = "yes" <=> view.timer = Some(RefreshMs))
  /\ [](view.mounted # "yes" => view.timer = None)
  /\ [][/\ MountStep => (view.started = 0 /\ view'.started = 1)
        /\ TickStep => (view'.started = view.started + 1 /\ view.mounted = "yes")
        /\ view'.started > view.started => view'.mounted = "yes"
        /\ FailStep => /\ view'.error # ""
                       /\ ~view'.loading
                       /\ view'.metrics = view.metrics]_vars
C39_Witness ==
  /\ view.mounted = "gone"
  /\ view.ticks >= 1
  /\ view.failures >= 1
  /\ view.metrics = Some("snapshotA")
  /\ view.error = "upstream down"
  /\ ~view.loading
  /\ view.started = 2

\* C40: isAuthenticated holds exactly when a token and a client record are
\* stored and the default Authorization header is set (the header then
\* carries the stored token and client is the stored record); a login that
\* fails leaves the stored token, the stored record, the header,
\* isAuthenticated and client as they were; after a logout the stored items,
\* the header, isAuthenticated and client are cleared.
Session(a) == <<a.token, a.clientData, a.header, a.isAuthenticated, a.client>>
C40_SessionConsistent ==
  /\ [](/\ auth.isAuthenticated <=>
             (IsSome(auth.token) /\ IsSome(auth.clientData) /\ IsSome(auth.header))
        /\ auth.isAuthenticated =>
             /\ auth.header = Some(Bearer(Get(auth.token)))
             /\ auth.client = Some(Parse(Get(auth.clientData))))
  /\ [][(auth'.last = "loginFailed" /\ auth' # auth) =>
          /\ Session(auth') = Session(auth)
          /\ auth'.result # None /\ ~Get(auth'.result).success]_vars
  /\ [](auth.last = "logout" => Session(auth) = <<None, None, None, FALSE, None>>)
C40_Witness ==
  /\ auth.last = "loginFailed"
  /\ auth.isAuthenticated
  /\ auth.token = Some("t2")
  /\ auth.client = Some([id |-> 2, name |-> "B"])
  /\ Get(auth.result).error = Some("Invalid email or password")
  /\ auth.calls = 3
====
